---- MODULE Spec2Model ----
(***************************************************************************)
(* State machine of the game server: SqliteGameStore over one SQLite       *)
(* database, the orchestration helpers of routes/games_helpers.py and the  *)
(* Celery run_turn / start_game jobs of workers/tasks.py.                  *)
(*                                                                         *)
(* Storage model.  db is the committed database.  BEGIN IMMEDIATE takes    *)
(* the database write lock for a CONNECTION; tx is the working copy of     *)
(* the connection that holds it.  A statement issued on the connection     *)
(* that holds the lock reads and writes tx, a statement issued on any      *)
(* other connection reads db.  The web process owns ONE connection that    *)
(* all of its request coroutines share (stores.init_stores); every         *)
(* `await self.db.execute(...)` is a point where another coroutine runs.   *)
(* The Celery worker process owns its own connection.                      *)
(*                                                                         *)
(* A call is a sequence of awaited steps; task[t] holds the call's         *)
(* position and locals, and out holds the response of the step that ends   *)
(* a call (NoResponse after any other step).                               *)
(*                                                                         *)
(* Three specifications share the actions: Spec (one request coroutine     *)
(* and the Celery worker playing turns), SpecWeb (two request coroutines   *)
(* playing turns) and SpecLobby (two request coroutines creating, joining, *)
(* leaving and deleting a game).  Smaller ones look at one area each:      *)
(* SpecStart (who may start a game), SpecGames (two games in the one       *)
(* database), SpecOut (eliminated pieces), SpecPool (the pool of unused    *)
(* game names), SpecAuth (session tokens), SpecGateway (the validation     *)
(* around the physics engine), SpecCreds (check_credentials against the    *)
(* session token table), SpecDelete (delete_game and the re-creation of a  *)
(* name) and SpecLive (the chain of run_turn jobs, with fairness).         *)
(*                                                                         *)
(* Abstractions: (x, y) is one position value pos and (vx, vy) one         *)
(* velocity value vel; radius and mass are left out; pieces start at       *)
(* pos 0; the physics engine moves a piece by its velocity and stops it.   *)
(***************************************************************************)
EXTENDS Integers, Sequences, FiniteSets, TLC

\* ------------------------------------------------------------------ bounds
MaxTurn == 2
MaxTime == 1
MaxPos == 1
MaxVel == 1
MaxActs == 2
PiecesPerPlayer == 1
MaxPlayers == 2

\* ------------------------------------------------------- program constants
BoardSize == 800
BoardShrink == 50
TurnInterval == 86400
PaletteSize == 53
DefaultMaxPlayers == 4

\* ------------------------------------------------------------- vocabulary
Games == {"g1"}
Players == {"p1", "p2"}
System == "system"
None == "None"
WebTasks == {"w1", "w2"}
WorkerTasks == {"c1"}
Tasks == WebTasks \cup WorkerTasks
ConnOf(t) == IF t \in WebTasks THEN "web" ELSE "worker"

PieceIds == 0 .. (Cardinality(Players) * PiecesPerPlayer)
NoPiece == 0 - 1   \* action.get("pieceid") is None
ActionSet == [pieceid : PieceIds \cup {NoPiece}, vel : 1 .. MaxVel]
RECURSIVE SeqsUpTo(_, _)
SeqsUpTo(S, n) ==
  IF n = 0 THEN {<<>>}
  ELSE LET shorter == SeqsUpTo(S, n - 1)
       IN  shorter \cup {Append(s, a) : s \in {q \in shorter : Len(q) = n - 1}, a \in S}
ActionLists == SeqsUpTo(ActionSet, MaxActs)
MemberLists == {<<>>, <<"p1", "p2">>}

Min(a, b) == IF a < b THEN a ELSE b
Range(s) == {s[i] : i \in 1 .. Len(s)}

VARIABLES
  db,      \* committed database: game_id -> game row set
  tx,      \* working copy of the connection that holds the write lock
  lock,    \* connection with an open transaction, or None
  task,    \* request coroutines and worker jobs: position and locals
  jobs,    \* jobs handed to the broker: [kind, game, turn]
  out      \* the response this step returns to a caller, if any

vars == <<db, tx, lock, task, jobs, out>>

\* --------------------------------------------------------------- storage
\* games + game_settings + game_state + game_players + pieces + pieces_old of
\* a game that was created and joined by `members`.  create_game inserts
\* creator_player_id NULL; the column is maintained by database triggers, so
\* the creator of a game with members is taken to be any one of them.
NewGame(members, creator) ==
  [ exists      |-> TRUE,
    creator     |-> creator,
    board_size  |-> BoardSize,
    board_shrink |-> BoardShrink,
    turn_interval |-> TurnInterval,
    turn_number |-> 0,
    last_turn_time |-> 0,
    next_turn_time |-> 0,
    max_players |-> DefaultMaxPlayers,
    password    |-> TRUE,
    players     |-> members,
    submitted   |-> {},
    colors      |-> {},
    pieces      |-> {},
    pieces_old  |-> {} ]

\* datetime.now(): some instant not before the game's committed last_turn_time.
Clock(g) == db[g].last_turn_time .. MaxTime

\* What a statement on connection c sees.
View(c) == IF lock = c THEN tx ELSE db

IdleTask ==
  [ op |-> "idle", pc |-> "idle", g |-> "g1", p |-> None, n |-> 0,
    acts |-> <<>>, new |-> {}, at |-> 0, raced |-> FALSE, seen |-> 0 ]

NoResponse ==
  [ op |-> "idle", g |-> "g1", p |-> None, n |-> 0, res |-> None, raced |-> FALSE,
    cur |-> 0, seen |-> 0, npieces |-> 0 ]

InFlight(t) == task[t].pc # "idle"

\* The call of t returns or raises r: the response goes to its caller and the
\* coroutine ends.  The response is recorded with the call's arguments, the
\* committed turn_number at that moment (cur) and, for get_game, the
\* turn_number (seen) and the number of pieces in the returned dict.
Respond(t, r, pieces) ==
  /\ out' = [ op |-> task[t].op, g |-> task[t].g, p |-> task[t].p, n |-> task[t].n,
              res |-> r, raced |-> task[t].raced,
              cur |-> db[task[t].g].turn_number,
              seen |-> task[t].seen, npieces |-> Cardinality(pieces) ]
  /\ task' = [task EXCEPT ![t] = IdleTask]

\* ------------------------------------------------------------ simulation
\* services/game_simulation.py run_js_simulation: the engine's answer for a
\* well-formed input; owner is re-attached from the input piece.
RunJsSimulation(pieces) ==
  {[q EXCEPT !.pos = Min(q.pos + q.vel, MaxPos), !.vel = 0] : q \in pieces}

Malformed == {[pieceid |-> NoPiece, owner |-> None, pos |-> 0, vel |-> 0]}

\* BEGIN IMMEDIATE issued by t.  A connection that already has a transaction
\* open refuses it (sqlite3.OperationalError: cannot start a transaction
\* within a transaction); a lock held by another connection makes it wait.
BeginImmediate(t, nextpc) ==
  /\ task[t].pc = "begin"
  /\ lock \in {None, ConnOf(t)}
  /\ IF lock = None
     THEN /\ lock' = ConnOf(t)
          /\ tx' = db
          /\ task' = [task EXCEPT ![t].pc = nextpc]
          /\ out' = NoResponse
     ELSE /\ Respond(t, "OperationalError", {})
          /\ UNCHANGED <<lock, tx>>

\* The handler that commits what the transaction wrote before it raises.
CommitAndRaise(t, exc) ==
  /\ db' = tx
  /\ tx' = tx
  /\ lock' = None
  /\ Respond(t, exc, {})

\* `await self.db.rollback()` followed by raise.
RollbackAndRaise(t, exc) ==
  /\ db' = db
  /\ tx' = db
  /\ lock' = None
  /\ Respond(t, exc, {})

\* ------------------------------------------------ advance_turn_if_ready
AdvancesInFlight(g, n) ==
  {u \in Tasks : InFlight(u) /\ task[u].op = "advance" /\ task[u].g = g /\ task[u].n = n}
SubmitsInFlight(g, n) ==
  {u \in Tasks : InFlight(u) /\ task[u].op = "submit" /\ task[u].g = g /\ task[u].n = n}

\* A call starts.  raced records that the call overlaps an advance of the
\* game's committed turn; the calls in `marked` overlap this one.
StartCall(t, rec, rivals, marked) ==
  task' = [u \in Tasks |->
             IF u = t THEN [rec EXCEPT !.raced = (rivals # {})]
             ELSE IF u \in marked THEN [task[u] EXCEPT !.raced = TRUE]
             ELSE task[u]]

\* POST /api/apply_moves_and_run_game: the client names the turn.
ManualAdvance(t, g, n) ==
  LET live == db[g].turn_number = n /\ n >= 1 IN
  /\ t \in WebTasks
  /\ ~InFlight(t)
  /\ StartCall(t, [IdleTask EXCEPT !.op = "advance", !.pc = "begin", !.g = g, !.n = n],
               IF live THEN AdvancesInFlight(g, n) ELSE {},
               IF live THEN AdvancesInFlight(g, n) \cup SubmitsInFlight(g, n) ELSE {})
  /\ out' = NoResponse
  /\ UNCHANGED <<db, tx, lock, jobs>>

\* The broker delivers a run_turn job to the worker.  Delivery is at least
\* once: a job handed to the broker can be delivered any number of times.
RunTurn(t, job) ==
  LET live == db[job.g].turn_number = job.n IN
  /\ t \in WorkerTasks
  /\ ~InFlight(t)
  /\ job \in jobs /\ job.kind = "run_turn" /\ job.n < MaxTurn
  /\ StartCall(t, [IdleTask EXCEPT !.op = "advance", !.pc = "begin", !.g = job.g, !.n = job.n],
               IF live THEN AdvancesInFlight(job.g, job.n) ELSE {},
               IF live THEN AdvancesInFlight(job.g, job.n) \cup SubmitsInFlight(job.g, job.n)
               ELSE {})
  /\ out' = NoResponse
  /\ UNCHANGED <<db, tx, lock, jobs>>

AdvBegin(t) ==
  /\ task[t].op = "advance"
  /\ BeginImmediate(t, "adv_read")
  /\ UNCHANGED <<db, jobs>>

\* A position outside the board: where a piece that the engine reports as
\* eliminated was last seen.
OffBoard == MaxPos + 1

\* What run_js_simulation hands back for an engine answer of the given kind.
\* The pieces table has no status column and neither the survivors mapping
\* nor the INSERT reads a status key: an eliminated piece comes back as a
\* piece like any other, or not at all if the engine leaves it out.
\* Nothing compares the ids of an answer with those of the input: an answer
\* may hold a piece under an id the game never had.
\* The owner key of an answer is whatever the engine wrote (`pieces` shape)
\* or the owner of the input piece at the same index (`survivors` shape).
EngineAnswers(pieces, outcome) ==
  CASE outcome = "pieces" -> {RunJsSimulation(pieces)}
    [] outcome = "malformed" -> {Malformed}
    [] outcome = "eliminated" ->
         {RunJsSimulation(pieces \ {q}) \cup {[q EXCEPT !.pos = OffBoard, !.vel = 0]} :
            q \in pieces}
    [] outcome = "omitted" -> {RunJsSimulation(pieces \ {q}) : q \in pieces}
    [] outcome = "added" ->
         {RunJsSimulation(pieces) \cup {[pieceid |-> i, owner |-> o, pos |-> 0, vel |-> 0]} :
            i \in PieceIds \ {q.pieceid : q \in pieces}, o \in Players \cup {None}}
    [] outcome = "reowned" ->
         {{[q EXCEPT !.owner = f[q.pieceid]] : q \in RunJsSimulation(pieces)} :
            f \in [{q.pieceid : q \in pieces} -> Players \cup {None}]}

\* Steps 1-5: turn check, players, settings, pieces (every row of the game),
\* run_js_simulation, for an engine whose answer is of one of `outcomes`.
AdvSimulate(t, outcomes) ==
  LET g == task[t].g
      row == tx[g] IN
  /\ task[t].op = "advance" /\ task[t].pc = "adv_read"
  /\ IF ~row.exists THEN RollbackAndRaise(t, "GameNotFound")
     ELSE IF row.turn_number # task[t].n THEN RollbackAndRaise(t, "TurnMismatch")
     ELSE IF row.players = <<>> THEN RollbackAndRaise(t, "InvalidState")
     ELSE \E outcome \in outcomes :
            IF outcome = "failed"
            THEN RollbackAndRaise(t, "UnexpectedResult")
            ELSE \E answer \in EngineAnswers(row.pieces, outcome) :
                   /\ task' = [task EXCEPT ![t].pc = "adv_snapshot", ![t].new = answer]
                   /\ out' = NoResponse
                   /\ UNCHANGED <<db, tx, lock>>
  /\ UNCHANGED jobs

AdvRead(t) == AdvSimulate(t, {"pieces", "malformed", "failed"})

\* An advancement that keeps the earlier snapshot.
KeepOldPieces(row) == row

\* Step 6: DELETE FROM pieces_old; INSERT INTO pieces_old SELECT ... FROM pieces.
SnapshotOldPieces(row) == [row EXCEPT !.pieces_old = row.pieces]

AdvSnapshot(t) ==
  /\ task[t].op = "advance" /\ task[t].pc = "adv_snapshot"
  /\ tx' = [tx EXCEPT ![task[t].g] = SnapshotOldPieces(@)]
  /\ task' = [task EXCEPT ![t].pc = "adv_replace"]
  /\ out' = NoResponse
  /\ UNCHANGED <<db, lock, jobs>>

\* An INSERT that takes owner_player_id from the simulation output.
OwnerFromOutput(old, q) == q.owner

\* Step 7: owner_map.get(p.get("pieceid"), p.get("owner")).
OwnerMap(old, q) ==
  IF \E o \in old : o.pieceid = q.pieceid
  THEN (CHOOSE o \in old : o.pieceid = q.pieceid).owner
  ELSE q.owner
ReplacePieces(row, new) ==
  [row EXCEPT !.pieces = {[q EXCEPT !.owner = OwnerMap(row.pieces, q)] : q \in new}]

\* An advancement that leaves the submitted_turn flags as they are.
AdvanceKeepsFlags(row, at) ==
  [row EXCEPT !.turn_number = @ + 1,
              !.last_turn_time = at,
              !.next_turn_time = at + row.turn_interval]

\* Steps 8-9: clear submissions, turn_number + 1, turn timestamps.
AdvanceState(row, at) ==
  [row EXCEPT !.submitted = {},
              !.turn_number = @ + 1,
              !.last_turn_time = at,
              !.next_turn_time = at + row.turn_interval]

\* Steps 7-9.  An output piece without the keys the INSERT reads raises
\* (KeyError) after the snapshot and the DELETE.  new_last_turn_time (kept in
\* at) is the wall clock read in step 9.
AdvReplace(t, at) ==
  /\ task[t].op = "advance" /\ task[t].pc = "adv_replace"
  /\ at \in Clock(task[t].g)
  /\ IF task[t].new = Malformed
     THEN RollbackAndRaise(t, "UnexpectedResult")
     ELSE /\ tx' = [tx EXCEPT ![task[t].g] = AdvanceState(ReplacePieces(@, task[t].new), at)]
          /\ task' = [task EXCEPT ![t].pc = "adv_commit", ![t].at = at]
          /\ out' = NoResponse
          /\ UNCHANGED <<db, lock>>
  /\ UNCHANGED jobs

\* A commit step in which a failure to enqueue is fatal: the transaction is
\* rolled back and the caller sees an error.
SchedulingFatalCommit(t) ==
  LET g == task[t].g IN
  /\ task[t].op = "advance" /\ task[t].pc = "adv_commit"
  /\ \E enqueued \in BOOLEAN :
       IF enqueued
       THEN /\ db' = tx /\ lock' = None /\ UNCHANGED tx
            /\ jobs' = jobs \cup {[kind |-> "run_turn", g |-> g, n |-> task[t].n + 1]}
            /\ Respond(t, "ok", {})
       ELSE /\ RollbackAndRaise(t, "UnexpectedResult")
            /\ UNCHANGED jobs

\* commit, then run_turn.apply_async(args=[game_id, turn_number + 1]), which
\* may fail (logged, not raised).
AdvCommit(t) ==
  LET g == task[t].g IN
  /\ task[t].op = "advance" /\ task[t].pc = "adv_commit"
  /\ db' = tx
  /\ lock' = None
  /\ UNCHANGED tx
  /\ \E enqueued \in BOOLEAN :
       IF enqueued
       THEN jobs' = jobs \cup {[kind |-> "run_turn", g |-> g, n |-> task[t].n + 1]}
       ELSE UNCHANGED jobs
  /\ Respond(t, "ok", {})

\* ----------------------------------------------------------- submit_turn
\* POST /api/submit_turn.
SubmitTurn(t, g, p, n) ==
  /\ t \in WebTasks
  /\ ~InFlight(t)
  /\ StartCall(t, [IdleTask EXCEPT !.op = "submit", !.pc = "begin", !.g = g, !.p = p, !.n = n],
               IF db[g].turn_number = n /\ n >= 1 THEN AdvancesInFlight(g, n) ELSE {}, {})
  /\ out' = NoResponse
  /\ UNCHANGED <<db, tx, lock, jobs>>

SubBegin(t) ==
  /\ task[t].op = "submit"
  /\ BeginImmediate(t, "sub_body")
  /\ UNCHANGED <<db, jobs>>

\* The UPDATE without its owner_player_id = ? condition.
RECURSIVE ApplyActionsAnyOwner(_, _, _)
ApplyActionsAnyOwner(pieces, p, acts) ==
  IF acts = <<>> THEN pieces
  ELSE LET a == Head(acts)
           upd == IF a.pieceid = NoPiece THEN pieces
                  ELSE {IF q.pieceid = a.pieceid
                        THEN [q EXCEPT !.vel = a.vel] ELSE q : q \in pieces}
       IN  ApplyActionsAnyOwner(upd, p, Tail(acts))

\* UPDATE pieces SET vx = ?, vy = ? WHERE game_id = ? AND piece_id = ? AND
\* owner_player_id = ?, once per action that carries a pieceid, in list order.
RECURSIVE ApplyActions(_, _, _)
ApplyActions(pieces, p, acts) ==
  IF acts = <<>> THEN pieces
  ELSE LET a == Head(acts)
           upd == IF a.pieceid = NoPiece THEN pieces
                  ELSE {IF q.pieceid = a.pieceid /\ q.owner = p
                        THEN [q EXCEPT !.vel = a.vel] ELSE q : q \in pieces}
       IN  ApplyActions(upd, p, Tail(acts))

\* Steps 2-3 of submit_turn: the velocity updates and the submitted marker.
StoreSubmission(row, p, acts) ==
  [row EXCEPT !.pieces = ApplyActions(row.pieces, p, acts),
              !.submitted = @ \cup {p}]

\* The exception submit_turn raises for this row, or None.
SubmitCheck(row, p, n) ==
  IF ~row.exists THEN "GameNotFound"
  ELSE IF p \notin Range(row.players) THEN "PlayerNotFound"
  ELSE IF row.turn_number # n THEN "TurnMismatch"
  ELSE None

\* The request's action list is drawn where it is first used.
SubBody(t, acts) ==
  LET g == task[t].g
      exc == SubmitCheck(tx[g], task[t].p, task[t].n) IN
  /\ task[t].op = "submit" /\ task[t].pc = "sub_body"
  /\ IF exc # None
     THEN RollbackAndRaise(t, exc)
     ELSE /\ tx' = [tx EXCEPT ![g] = StoreSubmission(@, task[t].p, acts)]
          /\ task' = [task EXCEPT ![t].pc = "sub_commit", ![t].acts = acts]
          /\ out' = NoResponse
          /\ UNCHANGED <<db, lock>>
  /\ UNCHANGED jobs

SubCommit(t) ==
  /\ task[t].op = "submit" /\ task[t].pc = "sub_commit"
  /\ db' = tx
  /\ lock' = None
  /\ Respond(t, "ok", {})
  /\ UNCHANGED <<tx, jobs>>

\* ------------------------------------------------------------- get_game
\* GET /api/game_state: get_game is a sequence of SELECTs, each awaited.
GetGame(t, g) ==
  /\ t \in WebTasks
  /\ ~InFlight(t)
  /\ task' = [task EXCEPT ![t] = [IdleTask EXCEPT !.op = "get", !.pc = "get_state", !.g = g]]
  /\ out' = NoResponse
  /\ UNCHANGED <<db, tx, lock, jobs>>

\* SELECT ... FROM games / game_settings / game_state, on the store's
\* connection and outside any transaction of the call's own; new keeps the
\* game as the database showed it to these statements.
GetState(t) ==
  LET row == View(ConnOf(t))[task[t].g] IN
  /\ task[t].op = "get" /\ task[t].pc = "get_state"
  /\ IF ~row.exists
     THEN Respond(t, "GameNotFound", {})
     ELSE /\ task' = [task EXCEPT ![t].pc = "get_pieces", ![t].seen = row.turn_number,
                                  ![t].new = {row}]
          /\ out' = NoResponse
  /\ UNCHANGED <<db, tx, lock, jobs>>

\* SELECT ... FROM game_players / pieces / pieces_old, creator; return.
GetPieces(t) ==
  LET row == View(ConnOf(t))[task[t].g] IN
  /\ task[t].op = "get" /\ task[t].pc = "get_pieces"
  /\ Respond(t, "ok", row.pieces)
  /\ UNCHANGED <<db, tx, lock, jobs>>

\* ----------------------------------------------------------- start_game
\* games_helpers.initialize_pieces: pieceid = i * pieces_per_player + j.
InitializePieces(player_ids) ==
  {[pieceid |-> (i - 1) * PiecesPerPlayer + j, owner |-> player_ids[i], pos |-> 0, vel |-> 0] :
     i \in 1 .. Len(player_ids), j \in 0 .. (PiecesPerPlayer - 1)}

\* games_helpers.initialize_colors: base_colors[i % len(base_colors)].
InitializeColors(player_ids) ==
  {[player |-> player_ids[i], color |-> (i - 1) % PaletteSize] : i \in 1 .. Len(player_ids)}

\* POST /api/start_game by an authenticated player.
ManualStart(t, g, owner) ==
  /\ t \in WebTasks
  /\ ~InFlight(t)
  /\ task' = [task EXCEPT ![t] = [IdleTask EXCEPT !.op = "start", !.pc = "start_read",
                                                  !.g = g, !.p = owner]]
  /\ out' = NoResponse
  /\ UNCHANGED <<db, tx, lock, jobs>>

\* The broker delivers the start_game job that create_game's route scheduled;
\* the task acts as the reserved identity "system".
StartGameTask(t, job) ==
  /\ t \in WorkerTasks
  /\ ~InFlight(t)
  /\ job \in jobs /\ job.kind = "start_game"
  /\ task' = [task EXCEPT ![t] = [IdleTask EXCEPT !.op = "start", !.pc = "start_read",
                                                  !.g = job.g, !.p = System]]
  /\ out' = NoResponse
  /\ UNCHANGED <<db, tx, lock, jobs>>

\* The exception the helper raises for what get_game returned, or None.
StartHelperCheck(row, owner) ==
  IF ~row.exists THEN "GameNotFound"
  ELSE IF owner \notin {row.creator, System} THEN "CreatorOnlyAction"
  ELSE IF row.pieces # {} THEN "TurnMismatch"
  ELSE None

\* games_helpers.start_game up to the store call: get_game, authorization,
\* already-started check, colors, pieces, last_turn_time.
StartRead(t, at) ==
  LET row == View(ConnOf(t))[task[t].g]
      exc == StartHelperCheck(row, task[t].p) IN
  /\ task[t].op = "start" /\ task[t].pc = "start_read"
  /\ at \in Clock(task[t].g)
  /\ IF exc # None
     THEN Respond(t, exc, {})
     ELSE /\ task' = [task EXCEPT ![t].pc = "begin",
                                  ![t].acts = row.players,
                                  ![t].new = InitializePieces(row.players),
                                  ![t].at = at]
          /\ out' = NoResponse
  /\ UNCHANGED <<db, tx, lock, jobs>>

StartBegin(t) ==
  /\ task[t].op = "start"
  /\ BeginImmediate(t, "start_write")
  /\ UNCHANGED <<db, jobs>>

\* The exception SqliteGameStore.start_game raises for this row, or None.
StartStoreCheck(row) ==
  IF ~row.exists THEN "GameNotFound"
  ELSE IF row.turn_number # 0 THEN "TurnMismatch"
  ELSE None

\* UPDATE game_players SET color ...; DELETE FROM pieces; INSERT INTO pieces.
StorePieces(row, pieces, colors) ==
  [row EXCEPT !.colors = {c \in @ : \A d \in colors : d.player # c.player}
                         \cup {d \in colors : d.player \in Range(row.players)},
              !.pieces = pieces]

StartWrite(t) ==
  LET g == task[t].g
      exc == StartStoreCheck(tx[g]) IN
  /\ task[t].op = "start" /\ task[t].pc = "start_write"
  /\ IF exc # None
     THEN RollbackAndRaise(t, exc)
     ELSE /\ tx' = [tx EXCEPT ![g] = StorePieces(@, task[t].new,
                                                 InitializeColors(task[t].acts))]
          /\ task' = [task EXCEPT ![t].pc = "start_state"]
          /\ out' = NoResponse
          /\ UNCHANGED <<db, lock>>
  /\ UNCHANGED jobs

\* UPDATE game_state SET turn_number = 1, last_turn_time = ?, next_turn_time = ?.
StartState(row, at) ==
  [row EXCEPT !.turn_number = 1,
              !.last_turn_time = at,
              !.next_turn_time = at + row.turn_interval]

StartSetState(t) ==
  /\ task[t].op = "start" /\ task[t].pc = "start_state"
  /\ tx' = [tx EXCEPT ![task[t].g] = StartState(@, task[t].at)]
  /\ task' = [task EXCEPT ![t].pc = "start_commit"]
  /\ out' = NoResponse
  /\ UNCHANGED <<db, lock, jobs>>

\* commit, then run_turn.apply_async(args=[game_id, 1]), which may fail.
StartCommit(t) ==
  /\ task[t].op = "start" /\ task[t].pc = "start_commit"
  /\ db' = tx
  /\ lock' = None
  /\ \E enqueued \in BOOLEAN :
       IF enqueued
       THEN jobs' = jobs \cup {[kind |-> "run_turn", g |-> task[t].g, n |-> 1]}
       ELSE UNCHANGED jobs
  /\ Respond(t, "ok", {})
  /\ UNCHANGED tx

Init ==
  /\ \E m \in MemberLists, c \in Players \cup {None} :
       /\ c \in IF m = <<>> THEN {None} ELSE Range(m)
       /\ db = [g \in Games |-> NewGame(m, c)]
  /\ tx = db
  /\ lock = None
  /\ task = [t \in Tasks |-> IdleTask]
  /\ jobs = {[kind |-> "start_game", g |-> g, n |-> 0] : g \in Games}
  /\ out = NoResponse

\* Requests the web process accepts, each served by a coroutine of T.
Requests(T) ==
  \/ \E t \in T, g \in Games, n \in 0 .. (MaxTurn - 1) : ManualAdvance(t, g, n)
  \/ \E t \in T, g \in Games, p \in Players, n \in 0 .. MaxTurn : SubmitTurn(t, g, p, n)
  \/ \E t \in T, g \in Games : GetGame(t, g)
  \/ \E t \in T, g \in Games, owner \in Players : ManualStart(t, g, owner)

\* Jobs the broker delivers to the worker process.
Deliveries(T) ==
  \/ \E t \in T, job \in jobs : RunTurn(t, job)
  \/ \E t \in T, job \in jobs : StartGameTask(t, job)

\* One awaited step of a call in flight.
Steps(T) ==
  \/ \E t \in T : AdvBegin(t)
  \/ \E t \in T : AdvRead(t)
  \/ \E t \in T : AdvSnapshot(t)
  \/ \E t \in T, at \in 0 .. MaxTime : AdvReplace(t, at)
  \/ \E t \in T : AdvCommit(t)
  \/ \E t \in T : SubBegin(t)
  \/ \E t \in T, acts \in ActionLists : SubBody(t, acts)
  \/ \E t \in T : SubCommit(t)
  \/ \E t \in T : GetState(t)
  \/ \E t \in T : GetPieces(t)
  \/ \E t \in T, at \in 0 .. MaxTime : StartRead(t, at)
  \/ \E t \in T : StartBegin(t)
  \/ \E t \in T : StartWrite(t)
  \/ \E t \in T : StartSetState(t)
  \/ \E t \in T : StartCommit(t)

\* One request coroutine in the web process and the Celery worker.
Next == Requests({"w1"}) \/ Deliveries(WorkerTasks) \/ Steps({"w1"} \cup WorkerTasks)

Spec == Init /\ [][Next]_vars

\* Two request coroutines of the web process, which share its connection: w1
\* serves any request, w2 serves POST /api/apply_moves_and_run_game.
NextWeb ==
  \/ Requests({"w1"})
  \/ \E g \in Games, n \in 0 .. (MaxTurn - 1) : ManualAdvance("w2", g, n)
  \/ Steps(WebTasks)

SpecWeb == Init /\ [][NextWeb]_vars

\* ---------------------------------------------------------- create_game
\* A game_id no game was created under.
NoGame == [NewGame(<<>>, None) EXCEPT !.exists = FALSE, !.password = FALSE]

\* POST /api/create_game: the route always passes a hashed password; n is
\* the request's settings.max_players.
CreateGame(t, g, max) ==
  /\ t \in WebTasks
  /\ ~InFlight(t)
  /\ task' = [task EXCEPT ![t] = [IdleTask EXCEPT !.op = "create", !.pc = "begin",
                                                  !.g = g, !.n = max]]
  /\ out' = NoResponse
  /\ UNCHANGED <<db, tx, lock, jobs>>

CreateBegin(t) ==
  /\ task[t].op = "create"
  /\ BeginImmediate(t, "create_rows")
  /\ UNCHANGED <<db, jobs>>

\* INSERT INTO game_settings / game_state (turn_number 0) / games
\* (creator_player_id NULL).
InsertGame(row, max) ==
  [NewGame(<<>>, None) EXCEPT !.max_players = max, !.password = row.password]

\* SELECT 1 FROM games; the three INSERTs.
CreateRows(t) ==
  LET g == task[t].g IN
  /\ task[t].op = "create" /\ task[t].pc = "create_rows"
  /\ IF tx[g].exists
     THEN RollbackAndRaise(t, "GameAlreadyExists")
     ELSE /\ tx' = [tx EXCEPT ![g] = InsertGame(@, task[t].n)]
          /\ task' = [task EXCEPT ![t].pc = "create_password"]
          /\ out' = NoResponse
          /\ UNCHANGED <<db, lock>>
  /\ UNCHANGED jobs

\* insert_game_password(self.db, ..., commit=False) inside create_game's try,
\* whose only handler is `except sqlite3.IntegrityError`.  An existing row
\* raises PasswordAlreadyExists; the INSERT can also fail in the engine
\* (sqlite3.OperationalError: disk I/O error, database or disk is full).
\* Neither is an IntegrityError when it reaches create_game, so both leave
\* create_game with its transaction open.
CreatePassword(t) ==
  LET g == task[t].g IN
  /\ task[t].op = "create" /\ task[t].pc = "create_password"
  /\ IF tx[g].password
     THEN /\ Respond(t, "PasswordAlreadyExists", {})
          /\ UNCHANGED <<db, tx, lock>>
     ELSE \E inserted \in BOOLEAN :
            IF inserted
            THEN /\ tx' = [tx EXCEPT ![g].password = TRUE]
                 /\ task' = [task EXCEPT ![t].pc = "create_commit"]
                 /\ out' = NoResponse
                 /\ UNCHANGED <<db, lock>>
            ELSE /\ Respond(t, "sqlite3.Error", {})
                 /\ UNCHANGED <<db, tx, lock>>
  /\ UNCHANGED jobs

\* commit; the route then schedules start_game (a failure is logged).
CreateCommit(t) ==
  /\ task[t].op = "create" /\ task[t].pc = "create_commit"
  /\ db' = tx
  /\ lock' = None
  /\ \E enqueued \in BOOLEAN :
       IF enqueued
       THEN jobs' = jobs \cup {[kind |-> "start_game", g |-> task[t].g, n |-> 0]}
       ELSE UNCHANGED jobs
  /\ Respond(t, "ok", {})
  /\ UNCHANGED tx

\* ------------------------------------------------- join_game / leave_game
\* POST /api/join_game by an authenticated (hence registered) player.
JoinGame(t, g, p) ==
  /\ t \in WebTasks
  /\ ~InFlight(t)
  /\ task' = [task EXCEPT ![t] = [IdleTask EXCEPT !.op = "join", !.pc = "join_read",
                                                  !.g = g, !.p = p]]
  /\ out' = NoResponse
  /\ UNCHANGED <<db, tx, lock, jobs>>

\* The exception games_helpers.join_game raises for what get_game returned.
JoinHelperCheck(row, p) ==
  IF ~row.exists THEN "GameNotFound"
  ELSE IF p \in Range(row.players) THEN "PlayerAlreadyJoinedGame"
  ELSE IF Len(row.players) >= row.max_players THEN "GameFull"
  ELSE None

JoinRead(t) ==
  LET exc == JoinHelperCheck(View(ConnOf(t))[task[t].g], task[t].p) IN
  /\ task[t].op = "join" /\ task[t].pc = "join_read"
  /\ IF exc # None
     THEN Respond(t, exc, {})
     ELSE /\ task' = [task EXCEPT ![t].pc = "begin"]
          /\ out' = NoResponse
  /\ UNCHANGED <<db, tx, lock, jobs>>

JoinBegin(t) ==
  /\ task[t].op = "join"
  /\ BeginImmediate(t, "join_body")
  /\ UNCHANGED <<db, jobs>>

\* The exception add_player_to_game raises for this row, or None.  The
\* player exists; membership of the player is not looked at.
AddPlayerCheck(row) ==
  IF ~row.exists THEN "GameNotFound"
  ELSE IF Len(row.players) >= row.max_players THEN "GameFull"
  ELSE None

\* A join that never sets creator_player_id.
CreatorKeptOnJoin(row, p) == row.creator

\* The creator_player_id a joined game has after the INSERT into
\* game_players (a trigger of schema.sql): the first member.
CreatorAfterJoin(row, p) ==
  IF row.players = <<>> THEN p ELSE row.creator

\* INSERT INTO game_players (game_id, player_id, name, color).
InsertPlayer(row, p) ==
  [row EXCEPT !.players = Append(@, p), !.creator = CreatorAfterJoin(row, p)]

\* Checks and INSERT.  What the INSERT of a player who is already a member
\* does depends on the table's key: it raises sqlite3.IntegrityError, which
\* nothing catches (the transaction stays open), or it adds a second row.
JoinBody(t) ==
  LET g == task[t].g
      p == task[t].p
      exc == AddPlayerCheck(tx[g]) IN
  /\ task[t].op = "join" /\ task[t].pc = "join_body"
  /\ IF exc # None
     THEN RollbackAndRaise(t, exc)
     ELSE \E unique \in BOOLEAN :
            IF unique /\ p \in Range(tx[g].players)
            THEN /\ Respond(t, "IntegrityError", {})
                 /\ UNCHANGED <<db, tx, lock>>
            ELSE /\ tx' = [tx EXCEPT ![g] = InsertPlayer(@, p)]
                 /\ task' = [task EXCEPT ![t].pc = "join_commit"]
                 /\ out' = NoResponse
                 /\ UNCHANGED <<db, lock>>
  /\ UNCHANGED jobs

JoinCommit(t) ==
  /\ task[t].op = "join" /\ task[t].pc = "join_commit"
  /\ db' = tx
  /\ lock' = None
  /\ Respond(t, "ok", {})
  /\ UNCHANGED <<tx, jobs>>

\* POST /api/leave_game: the route calls
\* games_helpers.leave_game(store, game_id, player_id, owner_id=None), a
\* keyword the helper does not take (TypeError, answered with HTTP 400).
LeaveRoute(t, g, p) ==
  /\ t \in WebTasks
  /\ ~InFlight(t)
  /\ out' = [NoResponse EXCEPT !.op = "leave_route", !.g = g, !.p = p, !.res = "TypeError",
                               !.cur = db[g].turn_number]
  /\ UNCHANGED <<db, tx, lock, task, jobs>>

\* games_helpers.leave_game called with its own signature.
LeaveGame(t, g, p) ==
  /\ t \in WebTasks
  /\ ~InFlight(t)
  /\ task' = [task EXCEPT ![t] = [IdleTask EXCEPT !.op = "leave", !.pc = "begin",
                                                  !.g = g, !.p = p]]
  /\ out' = NoResponse
  /\ UNCHANGED <<db, tx, lock, jobs>>

LeaveBegin(t) ==
  /\ task[t].op = "leave"
  /\ BeginImmediate(t, "leave_body")
  /\ UNCHANGED <<db, jobs>>

\* The exception SqliteGameStore.leave_game raises for this row, or None.
LeaveCheck(row, p) ==
  IF ~row.exists THEN "GameNotFound"
  ELSE IF p \notin Range(row.players) THEN "PlayerNotFound"
  ELSE None

\* A leave that never touches creator_player_id.
CreatorKeptOnLeave(row, remaining) == {row.creator}

\* The creator_player_id values a game can have after the DELETE from
\* game_players (a trigger of schema.sql): unchanged while the creator is a
\* member, else some remaining member, NULL when nobody remains.
CreatorsAfterLeave(row, remaining) ==
  IF row.creator \in Range(remaining) THEN {row.creator}
  ELSE IF remaining = <<>> THEN {None}
  ELSE Range(remaining)

\* DELETE FROM game_players WHERE game_id = ? AND player_id = ?.
DeletePlayer(row, p, creator) ==
  [row EXCEPT !.players = SelectSeq(@, LAMBDA q : q # p),
              !.submitted = @ \ {p},
              !.colors = {c \in @ : c.player # p},
              !.creator = creator]

\* Checks and DELETE.  Both checks raise without a rollback.
LeaveBody(t) ==
  LET g == task[t].g
      p == task[t].p
      exc == LeaveCheck(tx[g], p) IN
  /\ task[t].op = "leave" /\ task[t].pc = "leave_body"
  /\ IF exc # None
     THEN /\ Respond(t, exc, {})
          /\ UNCHANGED <<db, tx, lock>>
     ELSE /\ \E c \in CreatorsAfterLeave(tx[g], SelectSeq(tx[g].players, LAMBDA q : q # p)) :
               tx' = [tx EXCEPT ![g] = DeletePlayer(@, p, c)]
          /\ task' = [task EXCEPT ![t].pc = "leave_commit"]
          /\ out' = NoResponse
          /\ UNCHANGED <<db, lock>>
  /\ UNCHANGED jobs

LeaveCommit(t) ==
  /\ task[t].op = "leave" /\ task[t].pc = "leave_commit"
  /\ db' = tx
  /\ lock' = None
  /\ Respond(t, "ok", {})
  /\ UNCHANGED <<tx, jobs>>

\* ---------------------------------------------------------- delete_game
\* POST /api/delete_game: the route calls
\* games_helpers.delete_game(store, game_id, player_id=None, owner_id=...),
\* a keyword the helper does not take (TypeError, answered with HTTP 403).
DeleteRoute(t, g, owner) ==
  /\ t \in WebTasks
  /\ ~InFlight(t)
  /\ out' = [NoResponse EXCEPT !.op = "delete_route", !.g = g, !.p = owner,
                               !.res = "TypeError", !.cur = db[g].turn_number]
  /\ UNCHANGED <<db, tx, lock, task, jobs>>

\* games_helpers.delete_game called with its own signature.
DeleteGame(t, g, owner) ==
  /\ t \in WebTasks
  /\ ~InFlight(t)
  /\ task' = [task EXCEPT ![t] = [IdleTask EXCEPT !.op = "delete", !.pc = "delete_read",
                                                  !.g = g, !.p = owner]]
  /\ out' = NoResponse
  /\ UNCHANGED <<db, tx, lock, jobs>>

\* What games_helpers.delete_game raises for what get_game returned.  For the
\* creator it goes on to `await store.delete_game(game_id)`, a call without
\* the store method's required argument `owner` (TypeError).
DeleteHelperCheck(row, owner) ==
  IF ~row.exists THEN "GameNotFound"
  ELSE IF owner # row.creator THEN "CreatorOnlyAction"
  ELSE "TypeError"

DeleteRead(t) ==
  /\ task[t].op = "delete" /\ task[t].pc = "delete_read"
  /\ Respond(t, DeleteHelperCheck(View(ConnOf(t))[task[t].g], task[t].p), {})
  /\ UNCHANGED <<db, tx, lock, jobs>>

\* --------------------------------------------------------------- lobby
\* No game has been created yet.
InitLobby ==
  /\ db = [g \in Games |-> NoGame]
  /\ tx = db
  /\ lock = None
  /\ task = [t \in Tasks |-> IdleTask]
  /\ jobs = {}
  /\ out = NoResponse

LobbyRequests(T) ==
  \/ \E t \in T, g \in Games, max \in 1 .. MaxPlayers : CreateGame(t, g, max)
  \/ \E t \in T, g \in Games, p \in Players : JoinGame(t, g, p)
  \/ \E t \in T, g \in Games, p \in Players : LeaveRoute(t, g, p)
  \/ \E t \in T, g \in Games, p \in Players : LeaveGame(t, g, p)
  \/ \E t \in T, g \in Games, p \in Players : DeleteRoute(t, g, p)
  \/ \E t \in T, g \in Games, p \in Players : DeleteGame(t, g, p)
  \/ \E t \in T, g \in Games : GetGame(t, g)

LobbySteps(T) ==
  \/ \E t \in T : CreateBegin(t)
  \/ \E t \in T : CreateRows(t)
  \/ \E t \in T : CreatePassword(t)
  \/ \E t \in T : CreateCommit(t)
  \/ \E t \in T : JoinRead(t)
  \/ \E t \in T : JoinBegin(t)
  \/ \E t \in T : JoinBody(t)
  \/ \E t \in T : JoinCommit(t)
  \/ \E t \in T : LeaveBegin(t)
  \/ \E t \in T : LeaveBody(t)
  \/ \E t \in T : LeaveCommit(t)
  \/ \E t \in T : DeleteRead(t)
  \/ \E t \in T : GetState(t)
  \/ \E t \in T : GetPieces(t)

\* Creation and membership of a game: two request coroutines of the web
\* process on its one connection.
NextLobby == LobbyRequests(WebTasks) \/ LobbySteps(WebTasks)

SpecLobby == InitLobby /\ [][NextLobby]_vars

\* ------------------------------------------------------ who may start
\* The identities POST /api/start_game can arrive with: a registered
\* player's id, None when the request carries no player_id (check_credentials
\* then validates the game cookie only), and "system", which
\* POST /api/register_for_game registers as a player id because it does not
\* call is_valid_name (POST /api/create_player does).
Requesters == Players \cup {System, None}

\* Starting a game: a request coroutine of the web process and the worker
\* that runs the scheduled start_game job.
NextStart ==
  \/ \E g \in Games, owner \in Requesters : ManualStart("w1", g, owner)
  \/ \E job \in jobs : StartGameTask("c1", job)
  \/ \E g \in Games : GetGame("w1", g)
  \/ \E t \in {"w1", "c1"}, at \in 0 .. MaxTime : StartRead(t, at)
  \/ \E t \in {"w1", "c1"} : StartBegin(t)
  \/ \E t \in {"w1", "c1"} : StartWrite(t)
  \/ \E t \in {"w1", "c1"} : StartSetState(t)
  \/ \E t \in {"w1", "c1"} : StartCommit(t)
  \/ \E t \in {"w1"} : GetState(t)
  \/ \E t \in {"w1"} : GetPieces(t)

SpecStart == Init /\ [][NextStart]_vars

\* ------------------------------------------------------------ sessions
\* stores/sqlite_auth_store.py: the session_tokens table of the same
\* database file, reached through the auth store's own connection, which
\* every request coroutine of the web process shares.  Each statement is
\* followed by a commit, so a statement's effect is what the next statement
\* of any coroutine sees.  A row's `expired` says that its expires_at is
\* before datetime.now(); time passing turns it TRUE.
SessionTokens == {"s1", "s2"}
NoSession == [present |-> FALSE, expired |-> FALSE, game_id |-> None, player_id |-> None]
Session(g) == [present |-> TRUE, expired |-> FALSE, game_id |-> g, player_id |-> None]

\* A call of the auth store returns or raises r; p is the session_info the
\* call obtained from validate_session_token, None if there was none.
AuthReturn(t, r) ==
  out' = [NoResponse EXCEPT !.op = task[t].op, !.g = task[t].g, !.p = task[t].p,
                            !.res = r, !.raced = task[t].raced]

\* The row of tok was rewritten or deleted: what a coroutine read from it
\* before is no longer the row's expires_at.
Rewritten(f, tok) ==
  [u \in Tasks |->
     IF f[u].pc = "val_check" /\ f[u].g = tok
     THEN [f[u] EXCEPT !.raced = TRUE] ELSE f[u]]

\* create_session_token: INSERT OR REPLACE with an expiry the routes compute
\* as now + days, after the existence checks on games / players.
CreateSessionToken(t, tok, g) ==
  /\ t \in WebTasks
  /\ ~InFlight(t)
  /\ \E found \in BOOLEAN :
       IF found
       THEN /\ db' = [db EXCEPT ![tok] = Session(g)]
            /\ task' = Rewritten(task, tok)
            /\ out' = [NoResponse EXCEPT !.op = "create", !.g = tok, !.p = g, !.res = "ok"]
       ELSE /\ UNCHANGED <<db, task>>
            /\ out' = [NoResponse EXCEPT !.op = "create", !.g = tok, !.p = g,
                                         !.res = "GameNotFound"]
  /\ UNCHANGED <<tx, lock, jobs>>

\* invalidate_session: DELETE, commit, SessionNotFound if no row was deleted.
InvalidateSession(t, tok) ==
  /\ t \in WebTasks
  /\ ~InFlight(t)
  /\ db' = [db EXCEPT ![tok] = NoSession]
  /\ task' = Rewritten(task, tok)
  /\ out' = [NoResponse EXCEPT !.op = "invalidate", !.g = tok,
                               !.res = IF db[tok].present THEN "ok" ELSE "SessionNotFound"]
  /\ UNCHANGED <<tx, lock, jobs>>

ValidateSessionToken(t, tok) ==
  /\ t \in WebTasks
  /\ ~InFlight(t)
  /\ task' = [task EXCEPT ![t] = [IdleTask EXCEPT !.op = "validate", !.pc = "val_select",
                                                  !.g = tok]]
  /\ out' = NoResponse
  /\ UNCHANGED <<db, tx, lock, jobs>>

RefreshSession(t, tok) ==
  /\ t \in WebTasks
  /\ ~InFlight(t)
  /\ task' = [task EXCEPT ![t] = [IdleTask EXCEPT !.op = "refresh", !.pc = "val_select",
                                                  !.g = tok]]
  /\ out' = NoResponse
  /\ UNCHANGED <<db, tx, lock, jobs>>

\* validate_session_token returns info (None or the row's game) to its
\* caller: the request, or refresh_session, which goes on to its UPDATE.
ValidateReturns(t, f, info) ==
  IF task[t].op = "refresh"
  THEN /\ task' = [f EXCEPT ![t] = [f[t] EXCEPT !.pc = "ref_update", !.p = info]]
       /\ out' = NoResponse
  ELSE /\ task' = [f EXCEPT ![t] = IdleTask]
       /\ out' = [NoResponse EXCEPT !.op = "validate", !.g = task[t].g, !.p = info,
                                    !.res = IF info = None THEN None ELSE "session",
                                    !.raced = task[t].raced]

\* SELECT game_id, player_id, expires_at; `if not row: return None`.
ValSelect(t) ==
  LET tok == task[t].g IN
  /\ task[t].pc = "val_select"
  /\ IF db[tok].present
     THEN /\ task' = [task EXCEPT ![t] = [task[t] EXCEPT !.pc = "val_check",
                                                         !.seen = db[tok]]]
          /\ out' = NoResponse
     ELSE ValidateReturns(t, task, None)
  /\ UNCHANGED <<db, tx, lock, jobs>>

\* A validate_session_token that leaves an expired row in place.
KeepExpiredToken(rows, tok) == rows

\* DELETE FROM session_tokens WHERE session_token = ?
DeleteExpiredToken(rows, tok) == [rows EXCEPT ![tok] = NoSession]

\* `if expires_dt < now`: the expires_at that was read against the clock now.
ValCheck(t) ==
  LET tok == task[t].g IN
  /\ task[t].pc = "val_check"
  /\ IF task[t].seen.expired
     THEN /\ db' = DeleteExpiredToken(db, tok)
          /\ ValidateReturns(t, Rewritten(task, tok), None)
     ELSE /\ UNCHANGED db
          /\ ValidateReturns(t, task, task[t].seen.game_id)
  /\ UNCHANGED <<tx, lock, jobs>>

\* refresh_session after its validate_session_token: UPDATE ... SET
\* expires_at = new_expires_at, commit, return True.  The result of the
\* validation is not looked at; new_expires_at is the caller's.
RefUpdate(t) ==
  LET tok == task[t].g IN
  /\ task[t].pc = "ref_update"
  /\ IF db[tok].present
     THEN \E past \in BOOLEAN :
            /\ db' = [db EXCEPT ![tok].expired = past]
            /\ task' = [Rewritten(task, tok) EXCEPT ![t] = IdleTask]
     ELSE /\ UNCHANGED db
          /\ task' = [task EXCEPT ![t] = IdleTask]
  /\ AuthReturn(t, "True")
  /\ UNCHANGED <<tx, lock, jobs>>

\* Time passes the expires_at of tok's row, and with it the same value held
\* by the coroutines that read it.
TimePasses(tok) ==
  /\ db[tok].present /\ ~db[tok].expired
  /\ db' = [db EXCEPT ![tok].expired = TRUE]
  /\ task' = [u \in Tasks |->
                IF task[u].pc = "val_check" /\ task[u].g = tok /\ ~task[u].raced
                THEN [task[u] EXCEPT !.seen.expired = TRUE] ELSE task[u]]
  /\ out' = NoResponse
  /\ UNCHANGED <<tx, lock, jobs>>

\* Time passes an expires_at that a coroutine read before the row changed.
TimePassesRead(t) ==
  /\ task[t].pc = "val_check" /\ task[t].raced /\ ~task[t].seen.expired
  /\ task' = [task EXCEPT ![t].seen.expired = TRUE]
  /\ out' = NoResponse
  /\ UNCHANGED <<db, tx, lock, jobs>>

InitAuth ==
  /\ db = [s \in SessionTokens |-> NoSession]
  /\ tx = db
  /\ lock = None
  /\ task = [t \in Tasks |-> IdleTask]
  /\ jobs = {}
  /\ out = NoResponse

NextAuth ==
  \/ \E t \in WebTasks, tok \in SessionTokens, g \in Games : CreateSessionToken(t, tok, g)
  \/ \E t \in WebTasks, tok \in SessionTokens : InvalidateSession(t, tok)
  \/ \E t \in WebTasks, tok \in SessionTokens : ValidateSessionToken(t, tok)
  \/ \E t \in WebTasks, tok \in SessionTokens : RefreshSession(t, tok)
  \/ \E t \in WebTasks : ValSelect(t)
  \/ \E t \in WebTasks : ValCheck(t)
  \/ \E t \in WebTasks : RefUpdate(t)
  \/ \E tok \in SessionTokens : TimePasses(tok)
  \/ \E t \in WebTasks : TimePassesRead(t)

SpecAuth == InitAuth /\ [][NextAuth]_vars

\* ------------------------------------------------------- unused_game_ids
\* The pool of pre-generated game names: the unused_game_ids table, read and
\* written through the game store's connection.  A row's `leased` says that
\* leased_until is not NULL and `expired` that it is before datetime('now');
\* time passing turns `expired` TRUE.
PoolNames == {"n1", "n2"}
ReserveAttempts == 3
Unleased == [leased |-> FALSE, expired |-> FALSE]
Leased == [leased |-> TRUE, expired |-> FALSE]

\* leased_until IS NULL OR leased_until < datetime('now')
Available(row) == ~row.leased \/ row.expired

PoolReturn(t, r) ==
  /\ out' = [NoResponse EXCEPT !.op = task[t].op, !.p = task[t].p, !.n = task[t].n,
                               !.res = r]
  /\ task' = [task EXCEPT ![t] = IdleTask]

PoolBegin(t, nextpc) ==
  /\ task[t].pc = "begin"
  /\ lock \in {None, ConnOf(t)}
  /\ IF lock = None
     THEN /\ lock' = ConnOf(t)
          /\ tx' = db
          /\ task' = [task EXCEPT ![t].pc = nextpc]
          /\ out' = NoResponse
     ELSE /\ PoolReturn(t, "OperationalError")
          /\ UNCHANGED <<lock, tx>>
  /\ UNCHANGED <<db, jobs>>

ReserveUnusedGameId(t) ==
  /\ ~InFlight(t)
  /\ task' = [task EXCEPT ![t] = [IdleTask EXCEPT !.op = "reserve", !.pc = "begin"]]
  /\ out' = NoResponse
  /\ UNCHANGED <<db, tx, lock, jobs>>

ResBegin(t) ==
  /\ task[t].op = "reserve"
  /\ PoolBegin(t, "res_select")

\* SELECT name ... ORDER BY last_refreshed DESC LIMIT 1 (names of one batch
\* share their last_refreshed); no row: rollback, return None.
ResSelect(t) ==
  /\ task[t].op = "reserve" /\ task[t].pc = "res_select"
  /\ IF \E nm \in PoolNames : Available(tx[nm])
     THEN /\ \E nm \in {m \in PoolNames : Available(tx[m])} :
               task' = [task EXCEPT ![t] = [task[t] EXCEPT !.pc = "res_update", !.p = nm]]
          /\ out' = NoResponse
          /\ UNCHANGED <<tx, lock>>
     ELSE /\ tx' = db
          /\ lock' = None
          /\ PoolReturn(t, None)
  /\ UNCHANGED <<db, jobs>>

\* UPDATE ... SET leased_until = datetime('now', '+N seconds') WHERE name = ?
\* AND (leased_until IS NULL OR leased_until < datetime('now')); a rowcount
\* other than 1 rolls back and tries again, ReserveAttempts times in all.
ResUpdate(t) ==
  LET nm == task[t].p IN
  /\ task[t].op = "reserve" /\ task[t].pc = "res_update"
  /\ IF Available(tx[nm])
     THEN /\ tx' = [tx EXCEPT ![nm] = Leased]
          /\ task' = [task EXCEPT ![t].pc = "res_commit"]
          /\ out' = NoResponse
          /\ UNCHANGED lock
     ELSE /\ tx' = db
          /\ lock' = None
          /\ IF task[t].n + 1 < ReserveAttempts
             THEN /\ task' = [task EXCEPT ![t] = [task[t] EXCEPT !.pc = "begin",
                                                                 !.n = task[t].n + 1]]
                  /\ out' = NoResponse
             ELSE PoolReturn(t, None)
  /\ UNCHANGED <<db, jobs>>

ResCommit(t) ==
  /\ task[t].op = "reserve" /\ task[t].pc = "res_commit"
  /\ db' = tx
  /\ lock' = None
  /\ PoolReturn(t, task[t].p)
  /\ UNCHANGED <<tx, jobs>>

ClearStaleLeases(t) ==
  /\ ~InFlight(t)
  /\ task' = [task EXCEPT ![t] = [IdleTask EXCEPT !.op = "clear", !.pc = "begin"]]
  /\ out' = NoResponse
  /\ UNCHANGED <<db, tx, lock, jobs>>

ClrBegin(t) ==
  /\ task[t].op = "clear"
  /\ PoolBegin(t, "clr_update")

\* A clean-up that sets every leased_until to NULL.
ClearEveryLease(rows) == [nm \in PoolNames |-> Unleased]

\* UPDATE ... SET leased_until = NULL WHERE leased_until IS NOT NULL AND
\* leased_until < datetime('now')
ClearStale(rows) ==
  [nm \in PoolNames |-> IF rows[nm].leased /\ rows[nm].expired THEN Unleased ELSE rows[nm]]

ClrUpdate(t) ==
  /\ task[t].op = "clear" /\ task[t].pc = "clr_update"
  /\ tx' = ClearStale(tx)
  /\ task' = [task EXCEPT ![t] = [task[t] EXCEPT !.pc = "clr_commit",
                !.n = Cardinality({nm \in PoolNames : tx[nm].leased /\ tx[nm].expired})]]
  /\ out' = NoResponse
  /\ UNCHANGED <<db, lock, jobs>>

ClrCommit(t) ==
  /\ task[t].op = "clear" /\ task[t].pc = "clr_commit"
  /\ db' = tx
  /\ lock' = None
  /\ PoolReturn(t, "cleared")
  /\ UNCHANGED <<tx, jobs>>

\* Time passes the leased_until of nm's committed row, which is also the
\* value the open transaction holds unless it rewrote the row.
LeaseRunsOut(nm) ==
  /\ db[nm].leased /\ ~db[nm].expired
  /\ db' = [db EXCEPT ![nm].expired = TRUE]
  /\ tx' = IF tx[nm] = db[nm] THEN [tx EXCEPT ![nm].expired = TRUE] ELSE tx
  /\ out' = NoResponse
  /\ UNCHANGED <<lock, task, jobs>>

\* Time passes a leased_until that is written but not yet committed.
NewLeaseRunsOut(nm) ==
  /\ lock # None
  /\ tx[nm] # db[nm]
  /\ tx[nm].leased /\ ~tx[nm].expired
  /\ tx' = [tx EXCEPT ![nm].expired = TRUE]
  /\ out' = NoResponse
  /\ UNCHANGED <<db, lock, task, jobs>>

InitPool ==
  /\ db = [nm \in PoolNames |-> Unleased]
  /\ tx = db
  /\ lock = None
  /\ task = [t \in Tasks |-> IdleTask]
  /\ jobs = {}
  /\ out = NoResponse

NextPool ==
  \/ \E t \in Tasks : ReserveUnusedGameId(t)
  \/ \E t \in Tasks : ResBegin(t)
  \/ \E t \in Tasks : ResSelect(t)
  \/ \E t \in Tasks : ResUpdate(t)
  \/ \E t \in Tasks : ResCommit(t)
  \/ \E t \in Tasks : ClearStaleLeases(t)
  \/ \E t \in Tasks : ClrBegin(t)
  \/ \E t \in Tasks : ClrUpdate(t)
  \/ \E t \in Tasks : ClrCommit(t)
  \/ \E nm \in PoolNames : LeaseRunsOut(nm)
  \/ \E nm \in PoolNames : NewLeaseRunsOut(nm)

SpecPool == InitPool /\ [][NextPool]_vars

\* ------------------------------------------------------------ two games
\* Two unrelated games in the one database file, both started with the same
\* two members and at turn 1, with the run_turn jobs start_game scheduled.
\* One request coroutine advances, the other submits for p1, the worker
\* plays the scheduled turns.
TwoGames == {"g1", "g2"}
StartedGame ==
  LET members == <<"p1", "p2">> IN
  StartState(StorePieces(NewGame(members, "p1"), InitializePieces(members),
                         InitializeColors(members)), 0)

InitGames ==
  /\ db = [g \in TwoGames |-> StartedGame]
  /\ tx = db
  /\ lock = None
  /\ task = [t \in Tasks |-> IdleTask]
  /\ jobs = {[kind |-> "run_turn", g |-> g, n |-> 1] : g \in TwoGames}
  /\ out = NoResponse

NextGames ==
  \/ \E g \in TwoGames : ManualAdvance("w1", g, 1)
  \/ \E g \in TwoGames : SubmitTurn("w2", g, "p1", 1)
  \/ \E t \in WorkerTasks, job \in jobs : RunTurn(t, job)
  \/ \E t \in Tasks : AdvBegin(t)
  \/ \E t \in Tasks : AdvRead(t)
  \/ \E t \in Tasks : AdvSnapshot(t)
  \/ \E t \in Tasks, at \in 0 .. MaxTime : AdvReplace(t, at)
  \/ \E t \in Tasks : AdvCommit(t)
  \/ \E t \in WebTasks : SubBegin(t)
  \/ \E t \in WebTasks, acts \in SeqsUpTo(ActionSet, 1) : SubBody(t, acts)
  \/ \E t \in WebTasks : SubCommit(t)

SpecGames == InitGames /\ [][NextGames]_vars

\* ------------------------------------------------------- eliminations
\* One started game advanced turn after turn by one request coroutine, with
\* an engine that may eliminate a piece in an advancement.
AdvBoard(t) ==
  AdvSimulate(t, {"pieces", "eliminated", "omitted", "added", "reowned", "failed"})

InitOut ==
  /\ db = [g \in Games |-> StartedGame]
  /\ tx = db
  /\ lock = None
  /\ task = [t \in Tasks |-> IdleTask]
  /\ jobs = {}
  /\ out = NoResponse

NextOut ==
  \/ \E g \in Games, n \in 1 .. MaxTurn : ManualAdvance("w1", g, n)
  \/ AdvBegin("w1")
  \/ AdvBoard("w1")
  \/ AdvSnapshot("w1")
  \/ \E at \in 0 .. MaxTime : AdvReplace("w1", at)
  \/ AdvCommit("w1")

SpecOut == InitOut /\ [][NextOut]_vars

\* ---------------------------------------------------- simulation gateway
\* services/game_simulation.py: _sanitize_obj and the two sides of
\* run_js_simulation.  A JSON-like value is taken along one root-to-leaf
\* path: each step is a container ("item": a list and its element; "key",
\* "reserved", "nonstr": a dict and the value under an ordinary string key,
\* under __proto__ / prototype / constructor, under a key that is not a
\* string) and the leaf is a primitive or some other object.
StepKinds == {"item", "key", "reserved", "nonstr"}
Leaves == {"prim", "object"}
DepthCap == 10
MaxNest == 11
MaxSteps == 3

Nest(k) == [i \in 1 .. k |-> "item"]

\* Values handed to the gateway by its caller.
GatewayValues ==
  {[path |-> s \o Nest(k), leaf |-> l] :
     s \in SeqsUpTo(StepKinds, MaxSteps), k \in 0 .. MaxNest, l \in Leaves}
  \cup {[path |-> Nest(k) \o s, leaf |-> l] :
          s \in SeqsUpTo(StepKinds, 1), k \in 0 .. MaxNest, l \in Leaves}

\* What json.loads can produce: string keys and primitive leaves only.
JsonValues == {v \in GatewayValues : v.leaf = "prim" /\ "nonstr" \notin Range(v.path)}

\* A validator that does not look at the keys of a dict.
RECURSIVE SanitizeAnyKey(_, _, _)
SanitizeAnyKey(path, leaf, depth) ==
  IF depth > DepthCap THEN "ValueError"
  ELSE IF path = <<>> THEN (IF leaf = "prim" THEN "ok" ELSE "ValueError")
  ELSE SanitizeAnyKey(Tail(path), leaf, depth + 1)

\* _sanitize_obj(obj, depth): "ok" (a copy of obj is returned) or ValueError.
RECURSIVE SanitizeObj(_, _, _)
SanitizeObj(path, leaf, depth) ==
  IF depth > DepthCap THEN "ValueError"
  ELSE IF path = <<>> THEN (IF leaf = "prim" THEN "ok" ELSE "ValueError")
  ELSE IF Head(path) \in {"nonstr", "reserved"} THEN "ValueError"
  ELSE SanitizeObj(Tail(path), leaf, depth + 1)

\* A copy that turns every dict it meets into a list of its values.
RECURSIVE CopyValuesOnly(_, _)
CopyValuesOnly(path, leaf) ==
  IF path = <<>> THEN [path |-> <<>>, leaf |-> leaf]
  ELSE LET inner == CopyValuesOnly(Tail(path), leaf)
       IN  [path |-> <<"item">> \o inner.path, leaf |-> inner.leaf]

\* The value _sanitize_obj returns for an obj it accepts: a new dict filled
\* key by key (clean[k] = ...), a new list built element by element, a
\* primitive as it is.
RECURSIVE SanitizedCopy(_, _)
SanitizedCopy(path, leaf) ==
  IF path = <<>> THEN [path |-> <<>>, leaf |-> leaf]
  ELSE LET inner == SanitizedCopy(Tail(path), leaf)
       IN  [path |-> <<Head(path)>> \o inner.path, leaf |-> inner.leaf]

IsList(v) == v.path # <<>> /\ Head(v.path) = "item"

\* What the validator is for: no reserved key at any level, a primitive
\* leaf, and nesting within the cap counted from the value itself.
Clean(v) ==
  /\ "reserved" \notin Range(v.path)
  /\ v.leaf = "prim"
  /\ Len(v.path) <= DepthCap

\* The exceptions run_js_simulation raises on a value it rejects.
GatewayErrors == {"ValueError", "RuntimeError"}

GatewayReturn(t, r, value) ==
  /\ out' = [NoResponse EXCEPT !.op = "simulate", !.res = r, !.seen = value]
  /\ task' = [task EXCEPT ![t].pc = "idle"]

\* run_js_simulation(pieces, ...) is called; each behaviour follows one call,
\* whose arguments and engine answer stay readable after it has returned.
GatewayCall(t, v) ==
  /\ task[t].op = "idle"
  /\ task' = [task EXCEPT ![t] = [IdleTask EXCEPT !.op = "simulate", !.pc = "gw_input",
                                                  !.seen = v]]
  /\ out' = NoResponse
  /\ UNCHANGED <<db, tx, lock, jobs>>

\* Input side: pieces must be a list; _sanitize_obj(pieces), its ValueError
\* re-raised as RuntimeError; then the engine is invoked with safe_pieces
\* (kept in acts).
SanitizeInput(t) ==
  LET v == task[t].seen IN
  /\ task[t].pc = "gw_input"
  /\ IF ~IsList(v) THEN GatewayReturn(t, "ValueError", 0)
     ELSE IF SanitizeObj(v.path, v.leaf, 0) # "ok" THEN GatewayReturn(t, "RuntimeError", 0)
     ELSE /\ task' = [task EXCEPT ![t].pc = "gw_engine",
                                  ![t].acts = SanitizedCopy(v.path, v.leaf)]
          /\ out' = NoResponse
  /\ UNCHANGED <<db, tx, lock, jobs>>

\* The engine process ends: non-zero exit, or JSON on stdout that has a
\* `pieces` key, a `survivors` key, or neither.
EngineAnswer(t, shape, w) ==
  /\ task[t].pc = "gw_engine"
  /\ task' = [task EXCEPT ![t].pc = "gw_output", ![t].new = [shape |-> shape, value |-> w]]
  /\ out' = NoResponse
  /\ UNCHANGED <<db, tx, lock, jobs>>

\* The piece built from a survivors entry: the values under pieceid, x, y,
\* vx, vy (here: under the entry's ordinary key) are copied, every other key
\* of the entry is not read and its fields are None.
SurvivorPiece(entry, leaf) ==
  IF Head(entry) = "key"
  THEN [path |-> <<"key">> \o Tail(entry), leaf |-> leaf]
  ELSE [path |-> <<"key">>, leaf |-> "prim"]

\* Output side of run_js_simulation.
ParseOutput(t) ==
  LET shape == task[t].new.shape
      w == task[t].new.value IN
  /\ task[t].pc = "gw_output"
  /\ CASE shape = "failed" -> GatewayReturn(t, "RuntimeError", 0)
       [] shape = "unknown" -> GatewayReturn(t, "RuntimeError", 0)
       [] shape = "pieces" ->
            IF SanitizeObj(w.path, w.leaf, 0) = "ok"
            THEN GatewayReturn(t, "ok", SanitizedCopy(w.path, w.leaf))
            ELSE GatewayReturn(t, "ValueError", 0)
       [] shape = "survivors" ->
            IF ~IsList(w) THEN GatewayReturn(t, "RuntimeError", 0)
            ELSE IF Tail(w.path) = <<>> \/ Head(Tail(w.path)) = "item"
                 THEN GatewayReturn(t, "RuntimeError", 0)
            ELSE LET piece == SurvivorPiece(Tail(w.path), w.leaf) IN
                 IF SanitizeObj(piece.path, piece.leaf, 0) = "ok"
                 THEN GatewayReturn(t, "ok",
                        [path |-> <<"item">> \o SanitizedCopy(piece.path, piece.leaf).path,
                         leaf |-> piece.leaf])
                 ELSE GatewayReturn(t, "ValueError", 0)
  /\ UNCHANGED <<db, tx, lock, jobs>>

InitGateway ==
  /\ db = [g \in Games |-> StartedGame]
  /\ tx = db
  /\ lock = None
  /\ task = [t \in Tasks |-> IdleTask]
  /\ jobs = {}
  /\ out = NoResponse

NextGateway ==
  \/ \E v \in GatewayValues : GatewayCall("w1", v)
  \/ SanitizeInput("w1")
  \/ \E shape \in {"pieces", "survivors", "unknown", "failed"}, w \in JsonValues :
       EngineAnswer("w1", shape, w)
  \/ ParseOutput("w1")

SpecGateway == InitGateway /\ [][NextGateway]_vars

\* ------------------------------------------------------ check_credentials
\* utils/cookies.py check_credentials over the session_tokens table.  A
\* request names a game and a player (either may be missing) and carries a
\* cookie jar; the client chooses what each cookie holds.  The jar is kept in
\* acts as <<game cookie, player cookie>>; last_game and last_player hold the
\* same tokens, as create_session_and_append_cookies sets them.  n is the
\* credential under examination (1 game, 2 player, 3 last_game, 4
\* last_player), new the set of credentials granted so far.
TokenRow(g, p) == [present |-> TRUE, expired |-> FALSE, game_id |-> g, player_id |-> p]
TokenRows ==
  {NoSession} \cup ({TokenRow(g, p) : g \in TwoGames \cup {None}, p \in Players \cup {None}}
                      \ {TokenRow(None, None)})
NoCookie == None
Cookies == SessionTokens \cup {NoCookie}
LastCredential == 4

CookieOf(f, k) == IF k \in {1, 3} THEN f.acts[1] ELSE f.acts[2]
Requested(f, k) ==
  CASE k = 1 -> f.g # None
    [] k = 2 -> f.p # None
    [] OTHER -> CookieOf(f, k) # NoCookie

CredReturn(t, r, granted) ==
  /\ out' = [NoResponse EXCEPT !.op = "creds", !.g = task[t].g, !.p = task[t].p,
                               !.res = r, !.seen = granted]
  /\ task' = [task EXCEPT ![t] = IdleTask]

\* Control reaches credential k: a credential that is not requested is
\* passed over, a requested game or player without its cookie raises
\* UnauthorizedException, after the last one the results are returned.
RECURSIVE CredEnter(_, _, _)
CredEnter(t, k, granted) ==
  IF k > LastCredential THEN CredReturn(t, "ok", granted)
  ELSE IF ~Requested(task[t], k) THEN CredEnter(t, k + 1, granted)
  ELSE IF CookieOf(task[t], k) = NoCookie THEN CredReturn(t, "Unauthorized", granted)
  ELSE /\ task' = [task EXCEPT ![t].pc = "cred_select", ![t].n = k, ![t].new = granted]
       /\ out' = NoResponse

CheckCredentials(t, g, p, jar) ==
  /\ t \in WebTasks
  /\ task[t].op = "idle"
  /\ task' = [task EXCEPT ![t] = [IdleTask EXCEPT !.op = "creds", !.pc = "cred_enter",
                                                  !.g = g, !.p = p, !.acts = jar]]
  /\ out' = NoResponse
  /\ UNCHANGED <<db, tx, lock, jobs>>

CredStart(t) ==
  /\ task[t].op = "creds" /\ task[t].pc = "cred_enter"
  /\ CredEnter(t, 1, {})
  /\ UNCHANGED <<db, tx, lock, jobs>>

\* A comparison that accepts any session whatever it is bound to.
AnyTokenMatches(f, k, data) == data.present

\* `token_data and token_data.get("game_id") == game_id`, resp. player_id;
\* for last_game / last_player only that the token names one.
TokenMatches(f, k, data) ==
  /\ data.present
  /\ CASE k = 1 -> data.game_id = f.g
       [] k = 2 -> data.player_id = f.p
       [] k = 3 -> data.game_id # None
       [] OTHER -> data.player_id # None

\* validate_session_token has returned data for credential k (NoSession for
\* its None).
CredDecide(t, data) ==
  LET k == task[t].n
      ok == TokenMatches(task[t], k, data)
      granted == IF ok THEN task[t].new \cup {k} ELSE task[t].new IN
  IF k <= 2 /\ ~ok THEN CredReturn(t, "Unauthorized", task[t].new)
  ELSE CredEnter(t, k + 1, granted)

\* validate_session_token: the SELECT; `if not row: return None`.
CredSelect(t) ==
  LET tok == CookieOf(task[t], task[t].n) IN
  /\ task[t].op = "creds" /\ task[t].pc = "cred_select"
  /\ IF db[tok].present
     THEN /\ task' = [task EXCEPT ![t].pc = "cred_check", ![t].seen = db[tok]]
          /\ out' = NoResponse
     ELSE CredDecide(t, NoSession)
  /\ UNCHANGED <<db, tx, lock, jobs>>

\* validate_session_token: the expiry check, the DELETE of an expired token.
CredCheck(t) ==
  LET tok == CookieOf(task[t], task[t].n) IN
  /\ task[t].op = "creds" /\ task[t].pc = "cred_check"
  /\ IF task[t].seen.expired
     THEN /\ db' = DeleteExpiredToken(db, tok)
          /\ CredDecide(t, NoSession)
     ELSE /\ UNCHANGED db
          /\ CredDecide(t, task[t].seen)
  /\ UNCHANGED <<tx, lock, jobs>>

\* Time passes the expires_at of tok, also for a coroutine that has read it
\* and not yet compared it with the clock.
TokenRunsOut(tok) ==
  /\ db[tok].present /\ ~db[tok].expired
  /\ db' = [db EXCEPT ![tok].expired = TRUE]
  /\ task' = [u \in Tasks |->
                IF task[u].pc = "cred_check" /\ CookieOf(task[u], task[u].n) = tok
                THEN [task[u] EXCEPT !.seen.expired = TRUE] ELSE task[u]]
  /\ out' = NoResponse
  /\ UNCHANGED <<tx, lock, jobs>>

\* Tokens issued earlier, for a game, a player or both; one request is
\* checked while the other coroutine revokes tokens and time passes.
InitCreds ==
  /\ db \in [SessionTokens -> TokenRows]
  /\ tx = db
  /\ lock = None
  /\ task = [t \in Tasks |-> IdleTask]
  /\ jobs = {}
  /\ out = NoResponse

NextCreds ==
  \/ \E g \in TwoGames \cup {None}, p \in Players \cup {None}, gc \in Cookies, pc \in Cookies :
       CheckCredentials("w1", g, p, <<gc, pc>>)
  \/ CredStart("w1")
  \/ CredSelect("w1")
  \/ CredCheck("w1")
  \/ \E tok \in SessionTokens : InvalidateSession("w2", tok)
  \/ \E tok \in SessionTokens : TokenRunsOut(tok)

SpecCreds == InitCreds /\ [][NextCreds]_vars

\* ------------------------------------------- delete_game and re-creation
\* SqliteGameStore.delete_game called with its own signature, followed by a
\* new create_game under the same game_id, with the session tokens of the
\* auth store in the same database file (db holds the game under its
\* game_id and each session_tokens row under its token).
\*
\* delete_game issues no statement on session_tokens or game_passwords.  What
\* becomes of their rows when the games row goes is decided by the foreign
\* keys of db/schema.sql (foreign_keys is ON): removed with it (ON DELETE
\* CASCADE), left alone (no foreign key), or the DELETE is refused.
SchemaOnDelete == {"cascade", "none", "restrict"}

DeleteStore(t, g) ==
  /\ t \in WebTasks
  /\ ~InFlight(t)
  /\ task' = [task EXCEPT ![t] = [IdleTask EXCEPT !.op = "delete_store", !.pc = "begin",
                                                  !.g = g]]
  /\ out' = NoResponse
  /\ UNCHANGED <<db, tx, lock, jobs>>

DelBegin(t) ==
  /\ task[t].op = "delete_store"
  /\ BeginImmediate(t, "del_rows")
  /\ UNCHANGED <<db, jobs>>

BoundTokens(rows, g) ==
  {tok \in SessionTokens : rows[tok].present /\ rows[tok].game_id = g}

\* DELETE FROM pieces, pieces_old, game_players, game_settings, game_state.
DeleteChildRows(row) == [NoGame EXCEPT !.exists = TRUE, !.password = row.password]

\* DELETE FROM games under the given foreign keys.
DeleteGameRow(rows, g, schema) ==
  [k \in DOMAIN rows |->
     IF k = g THEN [NoGame EXCEPT !.password = (schema = "none" /\ rows[g].password)]
     ELSE IF schema = "cascade" /\ k \in BoundTokens(rows, g) THEN NoSession
     ELSE rows[k]]

\* The SELECT and the six DELETEs.  A refused DELETE raises out of
\* delete_game, which has no handler: the transaction stays open.
DelRows(t) ==
  LET g == task[t].g IN
  /\ task[t].op = "delete_store" /\ task[t].pc = "del_rows"
  /\ IF ~tx[g].exists
     THEN RollbackAndRaise(t, "GameNotFound")
     ELSE \E schema \in SchemaOnDelete :
            IF schema = "restrict" /\ (tx[g].password \/ BoundTokens(tx, g) # {})
            THEN /\ tx' = [tx EXCEPT ![g] = DeleteChildRows(@)]
                 /\ Respond(t, "sqlite3.Error", {})
                 /\ UNCHANGED <<db, lock>>
            ELSE /\ tx' = DeleteGameRow(tx, g, schema)
                 /\ task' = [task EXCEPT ![t].pc = "del_commit"]
                 /\ out' = NoResponse
                 /\ UNCHANGED <<db, lock>>
  /\ UNCHANGED jobs

DelCommit(t) ==
  /\ task[t].op = "delete_store" /\ task[t].pc = "del_commit"
  /\ db' = tx
  /\ lock' = None
  /\ Respond(t, "ok", {})
  /\ UNCHANGED <<tx, jobs>>

\* create_session_token(token, game_id=g) on the auth store's connection with
\* a fresh secrets.token_urlsafe(32); its INSERT waits for the write lock.
IssueGameToken(t, tok, g) ==
  /\ t \in WebTasks
  /\ ~InFlight(t)
  /\ lock = None
  /\ ~db[tok].present
  /\ IF db[g].exists
     THEN /\ db' = [db EXCEPT ![tok] = Session(g)]
          /\ out' = [NoResponse EXCEPT !.op = "create_session", !.g = g, !.res = "ok"]
     ELSE /\ UNCHANGED db
          /\ out' = [NoResponse EXCEPT !.op = "create_session", !.g = g,
                                       !.res = "GameNotFound"]
  /\ UNCHANGED <<tx, lock, task, jobs>>

InitDelete ==
  /\ db = [k \in Games \cup SessionTokens |-> IF k \in Games THEN NoGame ELSE NoSession]
  /\ tx = db
  /\ lock = None
  /\ task = [t \in Tasks |-> IdleTask]
  /\ jobs = {}
  /\ out = NoResponse

\* One coroutine creates and deletes games, the other issues and presents
\* game tokens.
NextDelete ==
  \/ \E g \in Games : CreateGame("w1", g, DefaultMaxPlayers)
  \/ CreateBegin("w1")
  \/ CreateRows("w1")
  \/ CreatePassword("w1")
  \/ CreateCommit("w1")
  \/ \E g \in Games : DeleteStore("w1", g)
  \/ DelBegin("w1")
  \/ DelRows("w1")
  \/ DelCommit("w1")
  \/ \E tok \in SessionTokens, g \in Games : IssueGameToken("w2", tok, g)
  \/ \E tok \in SessionTokens, g \in Games : CheckCredentials("w2", g, None, <<tok, NoCookie>>)
  \/ CredStart("w2")
  \/ CredSelect("w2")
  \/ CredCheck("w2")

SpecDelete == InitDelete /\ [][NextDelete]_vars

\* ------------------------------------------------------------ auto-advance
\* The chain of deferred jobs: create_game's route schedules start_game,
\* start_game schedules run_turn(1), every advancement schedules run_turn for
\* the next turn.  Here a job handed to the broker is delivered once and is
\* gone when the worker has taken it: celery_task returns a failure dict for
\* an exception that is not retryable (GameNotFound, TurnMismatch,
\* InvalidState), which acknowledges the job, and the engine always answers
\* with pieces, so no retryable exception occurs.  Every apply_async
\* succeeds.
DeliverOnce(t, job) ==
  /\ t \in WorkerTasks
  /\ ~InFlight(t)
  /\ job \in jobs
  /\ job.kind = "run_turn" => job.n < MaxTurn
  /\ task' = [task EXCEPT ![t] =
                IF job.kind = "run_turn"
                THEN [IdleTask EXCEPT !.op = "advance", !.pc = "begin", !.g = job.g, !.n = job.n]
                ELSE [IdleTask EXCEPT !.op = "start", !.pc = "start_read", !.g = job.g,
                                      !.p = System]]
  /\ jobs' = jobs \ {job}
  /\ out' = NoResponse
  /\ UNCHANGED <<db, tx, lock>>

AdvEngineSucceeds(t) == AdvSimulate(t, {"pieces"})

AdvCommitEnqueued(t) ==
  /\ AdvCommit(t)
  /\ [kind |-> "run_turn", g |-> task[t].g, n |-> task[t].n + 1] \in jobs'

StartCommitEnqueued(t) ==
  /\ StartCommit(t)
  /\ [kind |-> "run_turn", g |-> task[t].g, n |-> 1] \in jobs'

\* The awaited steps of the request coroutine and of the worker's task.
WebLiveSteps(t) ==
  \/ AdvBegin(t)
  \/ AdvEngineSucceeds(t)
  \/ AdvSnapshot(t)
  \/ \E at \in 0 .. MaxTime : AdvReplace(t, at)
  \/ AdvCommitEnqueued(t)
  \/ SubBegin(t)
  \/ \E acts \in SeqsUpTo(ActionSet, 1) : SubBody(t, acts)
  \/ SubCommit(t)

WorkerLiveSteps(t) ==
  \/ \E at \in 0 .. MaxTime : StartRead(t, at)
  \/ StartBegin(t)
  \/ StartWrite(t)
  \/ StartSetState(t)
  \/ StartCommitEnqueued(t)
  \/ AdvBegin(t)
  \/ AdvEngineSucceeds(t)
  \/ AdvSnapshot(t)
  \/ \E at \in 0 .. MaxTime : AdvReplace(t, at)
  \/ AdvCommitEnqueued(t)

LiveRequests(t) ==
  \/ \E g \in Games, n \in 1 .. (MaxTurn - 1) : ManualAdvance(t, g, n)
  \/ \E g \in Games, p \in Players, n \in 1 .. (MaxTurn - 1) : SubmitTurn(t, g, p, n)

NextLive ==
  \/ LiveRequests("w1")
  \/ WebLiveSteps("w1")
  \/ \E job \in jobs : DeliverOnce("c1", job)
  \/ WorkerLiveSteps("c1")

\* The broker delivers every pending job, a request that has begun runs to
\* its end, and the worker's task runs to its end, its BEGIN IMMEDIATE
\* getting the write lock whenever it is free again and again.
SpecLive ==
  /\ Init
  /\ [][NextLive]_vars
  /\ WF_vars(\E job \in jobs : DeliverOnce("c1", job))
  /\ WF_vars(WebLiveSteps("w1"))
  /\ SF_vars(WorkerLiveSteps("c1"))

\* ------------------------------------------------------------------ claims
\* C1: in a started game with members, an advance_turn_if_ready(g, N) that
\* overlaps another advance of the same turn N either succeeds or raises
\* TurnMismatch (a failure of the engine aside).
C1_ConcurrentAdvance ==
  (out.op = "advance" /\ out.raced /\ db[out.g].players # <<>>)
    => out.res \in {"ok", "TurnMismatch", "UnexpectedResult"}

\* C2: when advance_turn_if_ready raises after it began its transaction, the
\* committed game (turn_number, pieces, pieces_old, submitted flags,
\* timestamps) is what it was, nothing the transaction wrote survives and the
\* write lock is free.
C2_FailedAdvanceRollsBack ==
  [][\A t \in Tasks :
       ( /\ task[t].op = "advance"
         /\ task[t].pc \in {"adv_read", "adv_snapshot", "adv_replace", "adv_commit"}
         /\ task'[t].pc = "idle"
         /\ out'.res # "ok" )
       => (db' = db /\ tx' = db /\ lock' = None)]_vars

\* An advance failed on a started game that holds submitted velocities, and
\* the lock is free.
C2_Witness ==
  /\ out.op = "advance" /\ out.res = "UnexpectedResult"
  /\ lock = None
  /\ db[out.g].turn_number >= 1
  /\ \E q \in db[out.g].pieces : q.vel > 0

\* C3: a submit_turn(g, p, N, actions) by a member that overlaps an
\* advance_turn_if_ready(g, N) either succeeds or raises TurnMismatch.
C3_SubmitOverlapsAdvance ==
  (out.op = "submit" /\ out.raced /\ out.p \in Range(db[out.g].players))
    => out.res \in {"ok", "TurnMismatch"}

\* C4: submit_turn by a member with a turn_number other than the game's
\* current turn_number raises TurnMismatch.
C4_StaleSubmit ==
  (out.op = "submit" /\ out.n # out.cur /\ out.p \in Range(db[out.g].players))
    => out.res = "TurnMismatch"

\* C5: a submit_turn by p that commits reports success, marks p as submitted,
\* sets the velocity of every piece of p that an action names (the last such
\* action's value) and leaves every other piece as it was.
C5_OwnershipEnforced ==
  [][\A t \in Tasks :
       (task[t].op = "submit" /\ task[t].pc = "sub_commit" /\ task'[t].pc = "idle")
       => LET g == task[t].g
              p == task[t].p
              acts == task[t].acts
              named(id) == {i \in 1 .. Len(acts) : acts[i].pieceid = id}
              last(id) == CHOOSE i \in named(id) : \A j \in named(id) : j <= i
          IN  /\ out'.res = "ok"
              /\ p \in db'[g].submitted
              /\ Cardinality(db'[g].pieces) = Cardinality(db[g].pieces)
              /\ \A q \in db[g].pieces :
                   IF q.owner = p /\ named(q.pieceid) # {}
                   THEN [q EXCEPT !.vel = acts[last(q.pieceid)].vel] \in db'[g].pieces
                   ELSE q \in db'[g].pieces]_vars

\* A submission about to commit whose list names a piece of another player
\* and a piece of the submitter: only the submitter's piece has moved.
C5_Witness ==
  \E t \in Tasks :
    /\ task[t].op = "submit" /\ task[t].pc = "sub_commit"
    /\ \E i, j \in 1 .. Len(task[t].acts) :
         /\ \E q \in db[task[t].g].pieces :
              q.pieceid = task[t].acts[i].pieceid /\ q.owner # task[t].p /\ q \in tx[task[t].g].pieces
         /\ \E q \in db[task[t].g].pieces :
              q.pieceid = task[t].acts[j].pieceid /\ q.owner = task[t].p /\ q \notin tx[task[t].g].pieces

\* C6: an advance_turn_if_ready(g, N) made when the game has passed turn N
\* raises TurnMismatch.
C6_StaleAdvance ==
  (out.op = "advance" /\ out.n < out.cur) => out.res = "TurnMismatch"

C8_StartInvariant ==
  \A g \in Games :
    (db[g].players # <<>> /\ db[g].colors = {})
      => (db[g].turn_number = 0 <=> db[g].pieces = {})

\* C9: start_game requested by the creator or the scheduled job on a game
\* whose turn_number is not 0 raises TurnMismatch.
C9_StartOnlyOnce ==
  (out.op = "start" /\ out.cur # 0 /\ out.p \in {db[out.g].creator, System})
    => out.res = "TurnMismatch"

\* C10: a successful advancement lowers the stored board_size by board_shrink.
C10_BoardShrinks ==
  [][\A t \in Tasks :
       (task[t].op = "advance" /\ task[t].pc = "adv_commit" /\ task'[t].pc = "idle")
       => db'[task[t].g].board_size = db[task[t].g].board_size - db[task[t].g].board_shrink]_vars

\* C13: once a submit_turn by p has committed in a turn, a further
\* submit_turn by p that commits in the same turn leaves the pieces (and so
\* their velocities) as they were.
C13_SubmitOncePerTurn ==
  [][\A t \in Tasks :
       ( /\ task[t].op = "submit" /\ task[t].pc = "sub_commit" /\ task'[t].pc = "idle"
         /\ task[t].p \in db[task[t].g].submitted )
       => db'[task[t].g].pieces = db[task[t].g].pieces]_vars

\* C11: a committed game never has more members than its max_players, and a
\* join by a non-member that ends while the game is full raises GameFull.
C11_MaxPlayers ==
  /\ \A g \in Games : db[g].exists => Len(db[g].players) <= db[g].max_players
  /\ ( /\ out.op = "join"
       /\ db[out.g].exists
       /\ out.p \notin Range(db[out.g].players)
       /\ Len(db[out.g].players) >= db[out.g].max_players )
     => out.res = "GameFull"

\* C12: no step commits a game in which a player is a member twice, and a
\* join that ends while its player is a committed member of the game raises
\* PlayerAlreadyJoinedGame and changes nothing.
C12_JoinOnce ==
  [][/\ \A g \in Games : Cardinality(Range(db'[g].players)) = Len(db'[g].players)
     /\ \A t \in Tasks :
          ( /\ task[t].op = "join" /\ task'[t].pc = "idle"
            /\ task[t].p \in Range(db[task[t].g].players) )
          => (out'.res = "PlayerAlreadyJoinedGame" /\ db' = db /\ tx' = tx)]_vars

\* C14: a delete request (through the route or the helper) that ends while
\* the game still exists was made by somebody other than the creator and
\* was answered with CreatorOnlyAction; the creator's delete removes the game.
C14_DeleteByCreator ==
  (out.op \in {"delete", "delete_route"} /\ db[out.g].exists)
    => (out.p # db[out.g].creator /\ out.res = "CreatorOnlyAction")

\* C15: a join that commits into a game without members makes its player
\* the creator; a join that commits into a game that has a creator leaves
\* the creator as it was.
C15_FirstMemberIsCreator ==
  [][\A t \in Tasks :
       (task[t].op = "join" /\ task[t].pc = "join_commit" /\ task'[t].pc = "idle")
       => LET g == task[t].g IN
          /\ out'.res = "ok"
          /\ db[g].players = <<>> => db'[g].creator = task[t].p
          /\ db[g].creator # None => db'[g].creator = db[g].creator]_vars

\* A second player has joined a game whose first member is its creator.
C15_Witness ==
  /\ out.op = "join" /\ out.res = "ok"
  /\ Len(db[out.g].players) = 2
  /\ db[out.g].players[2] = out.p
  /\ db[out.g].creator = db[out.g].players[1]
  /\ db[out.g].creator # out.p

\* C16: every committed game that has a member has a creator who is one of
\* its members.
C16_CreatorIsMember ==
  \A g \in Games :
    (db[g].exists /\ db[g].players # <<>>) => db[g].creator \in Range(db[g].players)

\* The creator is leaving a game in which a member remains: the DELETE has
\* run and the creator is now that member.
C16_Witness ==
  \E t \in Tasks :
    /\ task[t].op = "leave" /\ task[t].pc = "leave_commit"
    /\ db[task[t].g].creator = task[t].p
    /\ tx[task[t].g].players # <<>>
    /\ tx[task[t].g].creator \in Range(tx[task[t].g].players)
    /\ tx[task[t].g].creator # task[t].p

\* C17: a create_game that ends while the game is committed raises
\* GameAlreadyExists and changes nothing; one that ends while it is not
\* either creates it or fails in the engine.
C17_CreateOnce ==
  [][\A t \in Tasks :
       (task[t].op = "create" /\ task'[t].pc = "idle")
       => IF db[task[t].g].exists
          THEN out'.res = "GameAlreadyExists" /\ db' = db
          ELSE out'.res \in {"ok", "sqlite3.Error"}]_vars

\* C18: while no create_game of a game is in flight, no connection sees the
\* game's rows without its password row.
C18_CreateAllOrNothing ==
  \A g \in Games :
    (\A t \in Tasks : ~(InFlight(t) /\ task[t].op = "create" /\ task[t].g = g))
      => \A c \in {ConnOf(t) : t \in Tasks} : View(c)[g].exists => View(c)[g].password

\* C19: when a store method that has begun its transaction raises, the
\* committed database is what it was, what the transaction wrote is gone
\* and the connection has no transaction open.
C19_RaiseRollsBack ==
  [][\A t \in Tasks :
       ( /\ task[t].pc \in {"create_rows", "create_password", "create_commit",
                            "join_body", "join_commit", "leave_body", "leave_commit"}
         /\ task'[t].pc = "idle"
         /\ out'.res # "ok" )
       => (db' = db /\ tx' = db /\ lock' = None)]_vars

\* C20: no call ends with an error of the storage engine itself
\* (sqlite3.OperationalError, sqlite3.IntegrityError or another sqlite3.Error).
C20_NoRawEngineError ==
  out.res \notin {"OperationalError", "IntegrityError", "sqlite3.Error"}

\* C25: a start requested through the web process commits only for the
\* game's creator; a request by anybody else on an existing game raises
\* CreatorOnlyAction and changes nothing.
C25_OnlyCreatorStarts ==
  [][\A t \in WebTasks :
       ( /\ task[t].op = "start" /\ task'[t].pc = "idle"
         /\ db[task[t].g].exists
         /\ ~(task[t].p \in Players /\ task[t].p = db[task[t].g].creator) )
       => (out'.res = "CreatorOnlyAction" /\ db' = db)]_vars

\* C26: an advance that passed its checks and then ends without success at
\* the simulation step (the engine exited non-zero or timed out) raises
\* SimulationError.
C26_EngineFailureIsSimulationError ==
  [][\A t \in Tasks :
       ( /\ task[t].op = "advance" /\ task[t].pc = "adv_read" /\ task'[t].pc = "idle"
         /\ tx[task[t].g].exists
         /\ tx[task[t].g].turn_number = task[t].n
         /\ tx[task[t].g].players # <<>> )
       => out'.res = "SimulationError"]_vars

\* C28: apply_moves_and_run_game for a turn that is not the current turn of
\* an existing game ends without an error, reporting that nothing advanced.
C28_NotReadyIsNotAnError ==
  (out.op = "advance" /\ db[out.g].exists /\ out.n # out.cur)
    => out.res = "not_advanced"

\* C29: start_game and advance_turn_if_ready complete successfully whether or
\* not the next run_turn job could be enqueued, and what they commit is the
\* transaction's work either way; the enqueue comes with the commit, never
\* before it.
C29_SchedulingFailureNotFatal ==
  [][\A t \in Tasks :
       ( /\ task[t].pc \in {"adv_commit", "start_commit"}
         /\ task'[t].pc = "idle" )
       => ( /\ out'.res = "ok"
            /\ db' = tx
            /\ lock' = None
            /\ jobs \subseteq jobs' )]_vars

\* An advance answered ok although the job for the next turn was not enqueued.
C29_Witness ==
  /\ out.op = "advance" /\ out.res = "ok"
  /\ [kind |-> "run_turn", g |-> out.g, n |-> out.n + 1] \notin jobs
  /\ db[out.g].turn_number = out.n + 1

C24_RefreshRaisesSessionNotFound ==
  (out.op = "refresh" /\ out.p = None) => out.res = "SessionNotFound"

\* C22: while a committed lease of a pool name has not expired, no
\* reserve_unused_game_id returns that name and no clear_stale_leases (or
\* anything else) takes the lease away, whatever the interleaving.
C22_NoDoubleLease ==
  [][\A nm \in PoolNames :
       ( db[nm].leased /\ ~db[nm].expired )
       => ( /\ (out'.op = "reserve" => out'.res # nm)
            /\ db'[nm].leased )]_vars

\* A reservation returned a name while the lease of the other name, handed
\* out before, is still running, and a clean-up is under way.
C22_Witness ==
  /\ out.op = "reserve" /\ out.res \in PoolNames
  /\ \A nm \in PoolNames : db[nm].leased /\ ~db[nm].expired
  /\ \E t \in Tasks : task[t].op = "clear" /\ task[t].pc = "begin"

\* C21: while an advance_turn_if_ready on one game is between its BEGIN and
\* its commit, an advance_turn_if_ready or submit_turn on another game that
\* is at its own BEGIN can take that step, and the step does not fail.
C21_LockIsPerGame ==
  [][\A t \in Tasks :
       ( /\ task[t].op \in {"advance", "submit"} /\ task[t].pc = "begin"
         /\ \E u \in Tasks \ {t} :
              /\ task[u].op = "advance" /\ task[u].pc \notin {"idle", "begin"}
              /\ task[u].g # task[t].g )
       => ( /\ ENABLED (AdvBegin(t) \/ SubBegin(t))
            /\ (task'[t].pc = "idle" => out'.res # "OperationalError") )]_vars

\* C27: no piece that is off the board (eliminated) is part of the pieces an
\* advancement passes to the simulation, and no piece leaves the game's piece
\* list: an eliminated piece is kept in it.
C27_OutPiecesStayOut ==
  [][/\ \A t \in Tasks :
          ( /\ task[t].op = "advance" /\ task[t].pc = "adv_read"
            /\ task'[t].pc = "adv_snapshot" )
          => \A q \in tx[task[t].g].pieces : q.pos # OffBoard
     /\ \A g \in Games : \A q \in db[g].pieces :
          \E r \in db'[g].pieces : r.pieceid = q.pieceid]_vars

\* C30 as stated: pieces that are not clean make run_js_simulation raise
\* before the engine is invoked, an engine answer whose piece data is not
\* clean makes it raise too, and what it returns is clean.
C30_UncleanDataRaises ==
  [][\A t \in WebTasks :
       /\ ( task[t].pc = "gw_input" /\ task'[t].pc # "gw_input" /\ ~Clean(task[t].seen) )
          => ( task'[t].pc = "idle" /\ out'.res \in GatewayErrors )
       /\ ( /\ task[t].pc = "gw_output" /\ task'[t].pc = "idle"
            /\ task[t].new.shape \in {"pieces", "survivors"} )
          => ( /\ ~Clean(task[t].new.value) => out'.res \in GatewayErrors
               /\ out'.res = "ok" => Clean(out'.seen) )]_vars

\* C30 as the code has it: unclean pieces raise before the engine is
\* invoked; an unclean `pieces` answer raises; of a `survivors` answer only
\* the fields that are read are validated, each piece on its own, so what is
\* returned has no reserved key and no non-primitive leaf and its nesting is
\* within the cap counted from the piece, and the gateway raises when the
\* piece built from the entry is not clean.
C30_OnlyValidatedDataPasses ==
  [][\A t \in WebTasks :
       /\ ( task[t].pc = "gw_input" /\ task'[t].pc # "gw_input" /\ ~Clean(task[t].seen) )
          => ( task'[t].pc = "idle" /\ out'.res \in GatewayErrors )
       /\ ( task[t].pc = "gw_output" /\ task'[t].pc = "idle" /\ task[t].new.shape = "pieces" )
          => ( /\ ~Clean(task[t].new.value) => out'.res \in GatewayErrors
               /\ out'.res = "ok" => Clean(out'.seen) )
       /\ ( task[t].pc = "gw_output" /\ task'[t].pc = "idle" /\ task[t].new.shape = "survivors" )
          => ( out'.res = "ok" =>
                 /\ "reserved" \notin Range(out'.seen.path)
                 /\ out'.seen.leaf = "prim"
                 /\ Len(out'.seen.path) <= DepthCap + 1
                 /\ Clean([path |-> Tail(out'.seen.path), leaf |-> out'.seen.leaf]) )]_vars

\* A survivors answer whose entry carries a reserved key was accepted: the
\* key was dropped and a piece without it returned.
C30_Witness ==
  /\ out.op = "simulate" /\ out.res = "ok"
  /\ task["w1"].new.shape = "survivors"
  /\ "reserved" \in Range(task["w1"].new.value.path)
  /\ "reserved" \notin Range(out.seen.path)

\* C31: for a piece list with ordinary string keys, primitive leaves and
\* nesting within the cap, _sanitize_obj accepts it, the safe_pieces it
\* returns equal the input, and sanitizing safe_pieces again returns them
\* unchanged.
C31_SanitizeIsIdentity ==
  [][\A t \in WebTasks :
       ( /\ task[t].pc = "gw_input" /\ task'[t].pc # "gw_input"
         /\ IsList(task[t].seen)
         /\ Range(task[t].seen.path) \subseteq {"item", "key"}
         /\ task[t].seen.leaf = "prim"
         /\ Len(task[t].seen.path) <= DepthCap )
       => ( /\ task'[t].pc = "gw_engine"
            /\ task'[t].acts = task[t].seen
            /\ SanitizeObj(task'[t].acts.path, task'[t].acts.leaf, 0) = "ok"
            /\ SanitizedCopy(task'[t].acts.path, task'[t].acts.leaf) = task'[t].acts )]_vars

\* A list of piece dicts with a nested field went through the input side and
\* the engine was invoked with it.
C31_Witness ==
  /\ task["w1"].pc = "gw_engine"
  /\ task["w1"].seen.path = <<"item", "key", "key">>
  /\ task["w1"].acts = task["w1"].seen

\* C32: a successful advance_turn_if_ready(g, N) leaves the game at turn
\* N + 1 with no member marked as submitted, last_turn_time the time of the
\* advancement and next_turn_time one turn_interval later, and leaves every
\* other game as it was.
C32_AdvanceEffect ==
  [][(out'.op = "advance" /\ out'.res = "ok")
       => \E t \in Tasks :
            /\ task[t].op = "advance" /\ task[t].pc = "adv_commit"
            /\ task[t].g = out'.g /\ task[t].n = out'.n
            /\ db'[out'.g].turn_number = out'.n + 1
            /\ db'[out'.g].submitted = {}
            /\ db'[out'.g].last_turn_time = task[t].at
            /\ db'[out'.g].next_turn_time = task[t].at + db[out'.g].turn_interval
            /\ \A h \in DOMAIN db : h # out'.g => db'[h] = db[h]]_vars

\* g1 was advanced after p1 had submitted for it, while p1's submission for
\* g2 is still on record.
C32_Witness ==
  /\ out.op = "advance" /\ out.res = "ok" /\ out.g = "g1" /\ out.n = 1
  /\ \E q \in db["g1"].pieces_old : q.vel > 0
  /\ db["g1"].turn_number = 2
  /\ "g2" \in DOMAIN db /\ "p1" \in db["g2"].submitted

C34_PieceIdsFromStart ==
  \A g \in DOMAIN db :
    /\ \A q, r \in db[g].pieces : q.pieceid = r.pieceid => q = r
    /\ {q.pieceid : q \in db[g].pieces}
         \subseteq {q.pieceid : q \in InitializePieces(db[g].players)}

\* C35: the committed turn_number of a game changes only in two ways: from 0
\* to 1 by a successful start_game, and from N >= 1 to N + 1 by a successful
\* advance_turn_if_ready; no other step changes it.
C35_TurnNumberSteps ==
  [][\A g \in DOMAIN db :
       (db[g].exists /\ db'[g].exists /\ db'[g].turn_number # db[g].turn_number)
       => /\ out'.res = "ok" /\ out'.g = g
          /\ \/ /\ out'.op = "start"
                /\ db[g].turn_number = 0 /\ db'[g].turn_number = 1
             \/ /\ out'.op = "advance"
                /\ db[g].turn_number >= 1
                /\ db'[g].turn_number = db[g].turn_number + 1]_vars

\* C36: a member's submitted_turn flag is set only by that member's own
\* successful submit_turn for the turn the game is at, and no flag outlives
\* the turn it was set in: whenever the committed turn_number changes, no
\* member is marked afterwards.  Marked players are members.
C36_FlagsAreForCurrentTurn ==
  [][\A g \in DOMAIN db :
       /\ \A p \in db'[g].submitted \ db[g].submitted :
            /\ out'.op = "submit" /\ out'.res = "ok" /\ out'.g = g /\ out'.p = p
            /\ out'.n = db'[g].turn_number
       /\ db'[g].turn_number # db[g].turn_number => db'[g].submitted = {}
       /\ db'[g].submitted \subseteq Range(db'[g].players)]_vars

\* C37: a get_game that overlaps an advance_turn_if_ready of the same game
\* reads committed data only, and the dict it returns (turn_number from the
\* first statements, submitted flags, pieces and pieces_old from the later
\* ones) is the game as committed before the advancement or as committed
\* after it, never a mixture.
C37_GetGameSnapshot ==
  [][\A t \in WebTasks :
       (task[t].op = "get" /\ task'[t].pc # task[t].pc)
       => LET g == task[t].g
              row == View(ConnOf(t))[g] IN
          /\ (\E u \in Tasks : task[u].op = "advance" /\ task[u].g = g)
               => row = db[g]
          /\ (task[t].pc = "get_pieces" /\ task[t].seen >= 1)
               => \E pre \in task[t].new :
                    \/ pre.turn_number = row.turn_number
                    \/ /\ pre.submitted = row.submitted
                       /\ pre.pieces = row.pieces
                       /\ pre.pieces_old = row.pieces_old]_vars

\* C38: check_credentials grants the game (resp. the player) of a request
\* only on a cookie whose token it read from session_tokens as present, bound
\* to that game (resp. that player) and not past its expiry when checked; a
\* request that names a game or a player returns only with that grant.
C38_OnlyMatchingTokensAuthorize ==
  [][\A t \in WebTasks :
       /\ \A k \in {1, 2} :
            (task[t].op = "creds" /\ k \notin task[t].new
               /\ k \in (IF out'.op = "creds" THEN out'.seen ELSE task'[t].new))
            => /\ task[t].pc = "cred_check" /\ task[t].n = k
               /\ task[t].seen.present /\ ~task[t].seen.expired
               /\ IF k = 1 THEN task[t].seen.game_id = task[t].g
                           ELSE task[t].seen.player_id = task[t].p
       /\ (task[t].op = "creds" /\ task[t].pc = "cred_select"
             /\ task'[t].pc = "cred_check")
            => /\ db[CookieOf(task[t], task[t].n)].present
               /\ task'[t].seen = db[CookieOf(task[t], task[t].n)]
       /\ (task[t].op = "creds" /\ out'.op = "creds" /\ out'.res = "ok")
            => /\ task[t].g # None => 1 \in out'.seen
               /\ task[t].p # None => 2 \in out'.seen]_vars

\* A request for g1 as p1 was authorized on two tokens while the other
\* token's counterpart for g2 exists: the game cookie's token is bound to g1
\* and the player cookie's token to p1 in another game.
C38_Witness ==
  /\ out.op = "creds" /\ out.res = "ok" /\ out.g = "g1" /\ out.p = "p1"
  /\ {1, 2} \subseteq out.seen
  /\ db["s1"] = TokenRow("g1", None)
  /\ db["s2"] = TokenRow("g2", "p1")

C40_AutoAdvanceNeverStalls ==
  \A g \in Games : \A n \in 1 .. (MaxTurn - 1) :
    (db[g].turn_number = n) ~> (db[g].turn_number = n + 1)
====
